---------------------------- MODULE Spec2Model ----------------------------
(***************************************************************************)
(* Model of FbxToLwo's mesh export pipeline:                               *)
(*   - model::FbxSurface             (FbxSurface.h)                        *)
(*   - model::ModelExporterBase      (export/ModelExporterBase.h)          *)
(*   - stream::ExportStream          (stream/ExportStream.h)               *)
(*   - Matrix4                       (math/Matrix4.h, math/Matrix4.cpp)    *)
(*                                                                         *)
(* Arithmetic is exact where the code uses doubles: a double is a rational *)
(* number, or one of +inf, -inf and nan (see the section on doubles).      *)
(***************************************************************************)
EXTENDS Integers, Sequences, FiniteSets, TLC

VARIABLES
    fbx,          \* one model::FbxSurface object (material, vertices, indices, vertexIndices)
    surfaces,     \* ModelExporterBase::_surfaces : material name -> Surface (or NoSurface)
    last,         \* the most recent call on the exporter: its arguments and whether it threw
    calls,        \* number of calls made on the exporter so far
    upAxisY,      \* scene.getGlobalSettings()->UpAxis == UpVector_AxisY
    fs,           \* the file system: path -> content (a sequence of bytes) or Absent
    dirExists,    \* whether _outputDirectory exists
    pc,           \* position of the ExportStream's user: constructor, writing, steps of close()
    streamOpen,   \* _tempStream.is_open()
    written,      \* the bytes the sink has accepted so far
    attempted,    \* the bytes the writer has handed to the sink so far
    targetBefore, \* content of the target path when the stream was constructed
    closeError,   \* the exception close() / the constructor has thrown, or "none"
    conv,         \* one ConvertFbxToLwo call: its position and the scene it was given
    math,         \* one computation on Matrix4: its operands and its results
    endian,       \* one call of an endian writer: the build, the value and the sink
    main          \* one run of main(): its arguments, its position and what it did

fbxVars    == <<fbx>>
surfVars   == <<surfaces, last, calls, upAxisY>>
streamVars == <<fs, dirExists, pc, streamOpen, written, attempted, targetBefore,
                closeError>>
convVars   == <<conv>>
mathVars   == <<math>>
endianVars == <<endian>>
mainVars   == <<main>>
vars       == <<fbx, surfaces, last, calls, upAxisY,
                fs, dirExists, pc, streamOpen, written, attempted, targetBefore, closeError,
                conv, math,
                endian, main>>

-----------------------------------------------------------------------------
(* Bounds of the model *)

\* longest index list an FbxSurface is built up to
MaxIndices == 3
\* number of faces of one mesh of a scene
MaxFaces == 2
\* number of meshes of one scene
MaxMeshes == 2
\* number of addSurface / addPolygons calls on one exporter
MaxCalls == 2
\* number of polygons handed to one addPolygons call
MaxPolys == 1
\* number of bytes written to one ExportStream
MaxWrites == 2

-----------------------------------------------------------------------------
(* double: an exact rational <<n, d>> in lowest terms with d > 0, or one of *)
(* the IEEE 754 special values +inf = <<1, 0>>, -inf = <<-1, 0>> and        *)
(* nan = <<0, 0>>. Rounding and the sign of zero are not modelled.          *)

RECURSIVE Gcd(_, _)
Gcd(a, b) == IF b = 0 THEN a ELSE Gcd(b, a % b)
Abs(n) == IF n < 0 THEN -n ELSE n
Sign(n) == IF n < 0 THEN -1 ELSE IF n > 0 THEN 1 ELSE 0

\* the double n / d for d >= 0: n / 0 is +inf, -inf or nan by the sign of n
Lowest(n, d, g) == <<n \div g, d \div g>>
Frac(n, d) == IF d = 0 THEN <<Sign(n), 0>> ELSE Lowest(n, d, Gcd(Abs(n), d))

\* the double of an integer literal
Q(n) == <<n, 1>>
Inf == <<1, 0>>
NaN == <<0, 0>>
IsFinite(a) == a[2] # 0

\* a + b: inf + inf = inf, inf + (-inf) = nan, inf + x = inf, nan + x = nan
Add(a, b) ==
    IF a[2] = 0 /\ b[2] = 0
    THEN (IF a = b THEN a ELSE NaN)
    ELSE Frac(a[1] * b[2] + b[1] * a[2], a[2] * b[2])

\* -a
Neg(a) == <<-a[1], a[2]>>

\* a - b
Sub(a, b) == Add(a, Neg(b))

\* a * b: inf * 0 = nan, inf * x = +-inf, nan * x = nan
Mul(a, b) == Frac(a[1] * b[1], a[2] * b[2])

\* a / b: x / 0 = +-inf, 0 / 0 = nan, x / inf = 0, inf / inf = nan
Div(a, b) ==
    IF b[1] < 0
    THEN Frac(-(a[1] * b[2]), -(a[2] * b[1]))
    ELSE Frac(a[1] * b[2], a[2] * b[1])

\* Vector3(x, y, z) of integer literals
Vector3(x, y, z) == <<Q(x), Q(y), Q(z)>>

a ++ b == Add(a, b)
a -- b == Sub(a, b)
a ** b == Mul(a, b)

-----------------------------------------------------------------------------
(* Matrix4: double _m[16], column-wise. A matrix is the tuple of its 16     *)
(* elements: _m[i] of the code is m[i + 1] here.                           *)

byColumns(xx, xy, xz, xw, yx, yy, yz, yw, zx, zy, zz, zw, tx, ty, tz, tw) ==
    << xx, xy, xz, xw,
       yx, yy, yz, yw,
       zx, zy, zz, zw,
       tx, ty, tz, tw >>

getIdentity ==
    byColumns(Q(1), Q(0), Q(0), Q(0),
              Q(0), Q(1), Q(0), Q(0),
              Q(0), Q(0), Q(1), Q(0),
              Q(0), Q(0), Q(0), Q(1))

\* Matrix4::getTranslation
getTranslation(translation) ==
    byColumns(Q(1), Q(0), Q(0), Q(0),
              Q(0), Q(1), Q(0), Q(0),
              Q(0), Q(0), Q(1), Q(0),
              translation[1], translation[2], translation[3], Q(1))

\* Matrix4::getScale
getScale(scale) ==
    byColumns(scale[1], Q(0), Q(0), Q(0),
              Q(0), scale[2], Q(0), Q(0),
              Q(0), Q(0), scale[3], Q(0),
              Q(0), Q(0), Q(0), Q(1))

\* the product taken the other way round: other * this
getMultipliedByOtherFirst(m, other) ==
    byColumns(
        m[1] ** other[1] ++ m[2] ** other[5] ++ m[3] ** other[9] ++ m[4] ** other[13],
        m[1] ** other[2] ++ m[2] ** other[6] ++ m[3] ** other[10] ++ m[4] ** other[14],
        m[1] ** other[3] ++ m[2] ** other[7] ++ m[3] ** other[11] ++ m[4] ** other[15],
        m[1] ** other[4] ++ m[2] ** other[8] ++ m[3] ** other[12] ++ m[4] ** other[16],
        m[5] ** other[1] ++ m[6] ** other[5] ++ m[7] ** other[9] ++ m[8] ** other[13],
        m[5] ** other[2] ++ m[6] ** other[6] ++ m[7] ** other[10] ++ m[8] ** other[14],
        m[5] ** other[3] ++ m[6] ** other[7] ++ m[7] ** other[11] ++ m[8] ** other[15],
        m[5] ** other[4] ++ m[6] ** other[8] ++ m[7] ** other[12] ++ m[8] ** other[16],
        m[9] ** other[1] ++ m[10] ** other[5] ++ m[11] ** other[9] ++ m[12] ** other[13],
        m[9] ** other[2] ++ m[10] ** other[6] ++ m[11] ** other[10] ++ m[12] ** other[14],
        m[9] ** other[3] ++ m[10] ** other[7] ++ m[11] ** other[11] ++ m[12] ** other[15],
        m[9] ** other[4] ++ m[10] ** other[8] ++ m[11] ** other[12] ++ m[12] ** other[16],
        m[13] ** other[1] ++ m[14] ** other[5] ++ m[15] ** other[9] ++ m[16] ** other[13],
        m[13] ** other[2] ++ m[14] ** other[6] ++ m[15] ** other[10] ++ m[16] ** other[14],
        m[13] ** other[3] ++ m[14] ** other[7] ++ m[15] ** other[11] ++ m[16] ** other[15],
        m[13] ** other[4] ++ m[14] ** other[8] ++ m[15] ** other[12] ++ m[16] ** other[16])

\* Matrix4::getMultipliedBy: post-multiply this (m) with other
getMultipliedBy(m, other) ==
    byColumns(
        other[1] ** m[1] ++ other[2] ** m[5] ++ other[3] ** m[9] ++ other[4] ** m[13],
        other[1] ** m[2] ++ other[2] ** m[6] ++ other[3] ** m[10] ++ other[4] ** m[14],
        other[1] ** m[3] ++ other[2] ** m[7] ++ other[3] ** m[11] ++ other[4] ** m[15],
        other[1] ** m[4] ++ other[2] ** m[8] ++ other[3] ** m[12] ++ other[4] ** m[16],
        other[5] ** m[1] ++ other[6] ** m[5] ++ other[7] ** m[9] ++ other[8] ** m[13],
        other[5] ** m[2] ++ other[6] ** m[6] ++ other[7] ** m[10] ++ other[8] ** m[14],
        other[5] ** m[3] ++ other[6] ** m[7] ++ other[7] ** m[11] ++ other[8] ** m[15],
        other[5] ** m[4] ++ other[6] ** m[8] ++ other[7] ** m[12] ++ other[8] ** m[16],
        other[9] ** m[1] ++ other[10] ** m[5] ++ other[11] ** m[9] ++ other[12] ** m[13],
        other[9] ** m[2] ++ other[10] ** m[6] ++ other[11] ** m[10] ++ other[12] ** m[14],
        other[9] ** m[3] ++ other[10] ** m[7] ++ other[11] ** m[11] ++ other[12] ** m[15],
        other[9] ** m[4] ++ other[10] ** m[8] ++ other[11] ** m[12] ++ other[12] ** m[16],
        other[13] ** m[1] ++ other[14] ** m[5] ++ other[15] ** m[9] ++ other[16] ** m[13],
        other[13] ** m[2] ++ other[14] ** m[6] ++ other[15] ** m[10] ++ other[16] ** m[14],
        other[13] ** m[3] ++ other[14] ** m[7] ++ other[15] ** m[11] ++ other[16] ** m[15],
        other[13] ** m[4] ++ other[14] ** m[8] ++ other[15] ** m[12] ++ other[16] ** m[16])

getPremultipliedBy(m, other) == getMultipliedBy(other, m)

getTransposed(m) ==
    byColumns(m[1], m[5], m[9],  m[13],
              m[2], m[6], m[10],  m[14],
              m[3], m[7], m[11], m[15],
              m[4], m[8], m[12], m[16])

\* the affine inverse with the translation negated only, not multiplied by
\* the inverted rotation
getInversePlainTranslation(m) ==
    LET det == m[1] ** (m[6] ** m[11] -- m[10] ** m[7])
                 -- m[2] ** (m[5] ** m[11] -- m[9] ** m[7])
                 ++ m[3] ** (m[5] ** m[10] -- m[9] ** m[6])
        inv == Div(Q(1), det)
    IN  << (m[6] ** m[11] -- m[7] ** m[10]) ** inv,
           Neg((m[2] ** m[11] -- m[3] ** m[10]) ** inv),
           (m[2] ** m[7] -- m[3] ** m[6]) ** inv,
           Q(0),
           Neg((m[5] ** m[11] -- m[7] ** m[9]) ** inv),
           (m[1] ** m[11] -- m[3] ** m[9]) ** inv,
           Neg((m[1] ** m[7] -- m[3] ** m[5]) ** inv),
           Q(0),
           (m[5] ** m[10] -- m[6] ** m[9]) ** inv,
           Neg((m[1] ** m[10] -- m[2] ** m[9]) ** inv),
           (m[1] ** m[6] -- m[2] ** m[5]) ** inv,
           Q(0),
           Neg(m[13]),
           Neg(m[14]),
           Neg(m[15]),
           Q(1) >>

\* Matrix4::getInverse, the affine inverse: det is the determinant of the
\* rotation submatrix, then 1.0f / det; result[i] of the code is result[i + 1]
getInverse(m) ==
    LET det == m[1] ** (m[6] ** m[11] -- m[10] ** m[7])
                 -- m[2] ** (m[5] ** m[11] -- m[9] ** m[7])
                 ++ m[3] ** (m[5] ** m[10] -- m[9] ** m[6])
        inv == Div(Q(1), det)
        result0 == (m[6] ** m[11] -- m[7] ** m[10]) ** inv
        result1 == Neg((m[2] ** m[11] -- m[3] ** m[10]) ** inv)
        result2 == (m[2] ** m[7] -- m[3] ** m[6]) ** inv
        result4 == Neg((m[5] ** m[11] -- m[7] ** m[9]) ** inv)
        result5 == (m[1] ** m[11] -- m[3] ** m[9]) ** inv
        result6 == Neg((m[1] ** m[7] -- m[3] ** m[5]) ** inv)
        result8 == (m[5] ** m[10] -- m[6] ** m[9]) ** inv
        result9 == Neg((m[1] ** m[10] -- m[2] ** m[9]) ** inv)
        result10 == (m[1] ** m[6] -- m[2] ** m[5]) ** inv
    IN  << result0, result1, result2, Q(0),
           result4, result5, result6, Q(0),
           result8, result9, result10, Q(0),
           Neg(m[13] ** result0 ++ m[14] ** result4 ++ m[15] ** result8),
           Neg(m[13] ** result1 ++ m[14] ** result5 ++ m[15] ** result9),
           Neg(m[13] ** result2 ++ m[14] ** result6 ++ m[15] ** result10),
           Q(1) >>

\* cos and sin of an angle given in degrees, exact for the multiples of 90
\* the program passes (the code computes them in doubles from radians).
CosDeg(d) == CASE d % 360 = 0 -> Q(1) [] d % 360 = 180 -> Q(-1) [] OTHER -> Q(0)
SinDeg(d) == CASE d % 360 = 90 -> Q(1) [] d % 360 = 270 -> Q(-1) [] OTHER -> Q(0)

getRotationForEulerXYZDegrees(euler) ==
    LET cx == CosDeg(euler[1])  sx == SinDeg(euler[1])
        cy == CosDeg(euler[2])  sy == SinDeg(euler[2])
        cz == CosDeg(euler[3])  sz == SinDeg(euler[3])
    IN  byColumns(
            cy ** cz,
            cy ** sz,
            Neg(sy),
            Q(0),
            sx ** sy ** cz ++ cx ** Neg(sz),
            sx ** sy ** sz ++ cx ** cz,
            sx ** cy,
            Q(0),
            cx ** sy ** cz ++ sx ** sz,
            cx ** sy ** sz ++ Neg(sx) ** cz,
            cx ** cy,
            Q(0),
            Q(0),
            Q(0),
            Q(0),
            Q(1))

\* the signed minors put into the matrix row by row, without the transposition
\* of the adjugate
TimesInvDetByRows(signedMinors, invDet) ==
    byColumns(
        signedMinors[1] ** invDet, signedMinors[5] ** invDet,
        signedMinors[9] ** invDet, signedMinors[13] ** invDet,
        signedMinors[2] ** invDet, signedMinors[6] ** invDet,
        signedMinors[10] ** invDet, signedMinors[14] ** invDet,
        signedMinors[3] ** invDet, signedMinors[7] ** invDet,
        signedMinors[11] ** invDet, signedMinors[15] ** invDet,
        signedMinors[4] ** invDet, signedMinors[8] ** invDet,
        signedMinors[12] ** invDet, signedMinors[16] ** invDet)

\* byColumns(+minor3x3_11 * invDet, -minor3x3_12 * invDet, ...): the sixteen
\* signed minors, each multiplied by invDet
TimesInvDet(signedMinors, invDet) ==
    byColumns(
        signedMinors[1] ** invDet, signedMinors[2] ** invDet,
        signedMinors[3] ** invDet, signedMinors[4] ** invDet,
        signedMinors[5] ** invDet, signedMinors[6] ** invDet,
        signedMinors[7] ** invDet, signedMinors[8] ** invDet,
        signedMinors[9] ** invDet, signedMinors[10] ** invDet,
        signedMinors[11] ** invDet, signedMinors[12] ** invDet,
        signedMinors[13] ** invDet, signedMinors[14] ** invDet,
        signedMinors[15] ** invDet, signedMinors[16] ** invDet)

\* Matrix4::getFullInverse: the 2x2 minors, the 3x3 minors, the determinant,
\* then invDet = 1.0f / determinant. There is no test of the determinant, so
\* that a determinant of 0 gives invDet = inf
getFullInverse(this) ==
    LET xx == this[1]  xy == this[2]  xz == this[3]  xw == this[4]
        yx == this[5]  yy == this[6]  yz == this[7]  yw == this[8]
        zx == this[9]  zy == this[10]  zz == this[11] zw == this[12]
        tx == this[13] ty == this[14] tz == this[15] tw == this[16]
        minor01 == zz ** tw -- zw ** tz
        minor02 == zy ** tw -- zw ** ty
        minor03 == zx ** tw -- zw ** tx
        minor04 == zy ** tz -- zz ** ty
        minor05 == zx ** tz -- zz ** tx
        minor06 == zx ** ty -- zy ** tx
        minor07 == yz ** tw -- yw ** tz
        minor08 == yy ** tw -- yw ** ty
        minor09 == yy ** tz -- yz ** ty
        minor10 == yx ** tw -- yw ** tx
        minor11 == yx ** tz -- yz ** tx
        minor12 == yx ** ty -- yy ** tx
        minor13 == yz ** zw -- yw ** zz
        minor14 == yy ** zw -- yw ** zy
        minor15 == yy ** zz -- yz ** zy
        minor16 == yx ** zw -- yw ** zx
        minor17 == yx ** zz -- yz ** zx
        minor18 == yx ** zy -- yy ** zx
        minor3x3_11 == yy ** minor01 -- yz ** minor02 ++ yw ** minor04
        minor3x3_21 == yx ** minor01 -- yz ** minor03 ++ yw ** minor05
        minor3x3_31 == yx ** minor02 -- yy ** minor03 ++ yw ** minor06
        minor3x3_41 == yx ** minor04 -- yy ** minor05 ++ yz ** minor06
        minor3x3_12 == xy ** minor01 -- xz ** minor02 ++ xw ** minor04
        minor3x3_22 == xx ** minor01 -- xz ** minor03 ++ xw ** minor05
        minor3x3_32 == xx ** minor02 -- xy ** minor03 ++ xw ** minor06
        minor3x3_42 == xx ** minor04 -- xy ** minor05 ++ xz ** minor06
        minor3x3_13 == xy ** minor07 -- xz ** minor08 ++ xw ** minor09
        minor3x3_23 == xx ** minor07 -- xz ** minor10 ++ xw ** minor11
        minor3x3_33 == xx ** minor08 -- xy ** minor10 ++ xw ** minor12
        minor3x3_43 == xx ** minor09 -- xy ** minor11 ++ xz ** minor12
        minor3x3_14 == xy ** minor13 -- xz ** minor14 ++ xw ** minor15
        minor3x3_24 == xx ** minor13 -- xz ** minor16 ++ xw ** minor17
        minor3x3_34 == xx ** minor14 -- xy ** minor16 ++ xw ** minor18
        minor3x3_44 == xx ** minor15 -- xy ** minor17 ++ xz ** minor18
        determinant == xx ** minor3x3_11 -- xy ** minor3x3_21
                         ++ xz ** minor3x3_31 -- xw ** minor3x3_41
        invDet == Div(Q(1), determinant)
    IN  TimesInvDet(
            << minor3x3_11, Neg(minor3x3_12), minor3x3_13, Neg(minor3x3_14),
               Neg(minor3x3_21), minor3x3_22, Neg(minor3x3_23), minor3x3_24,
               minor3x3_31, Neg(minor3x3_32), minor3x3_33, Neg(minor3x3_34),
               Neg(minor3x3_41), minor3x3_42, Neg(minor3x3_43), minor3x3_44 >>,
            invDet)

\* xx() * point[0] + yx() * point[1] + zx() * point[2] + tx(), ...
\* (a vector is a tuple, so point[0] of the code is point[1] here)
transformPoint(m, point) ==
    << m[1] ** point[1] ++ m[5] ** point[2] ++ m[9]  ** point[3] ++ m[13],
       m[2] ** point[1] ++ m[6] ** point[2] ++ m[10] ** point[3] ++ m[14],
       m[3] ** point[1] ++ m[7] ** point[2] ++ m[11] ** point[3] ++ m[15] >>

\* Matrix4::transformDirection: as transformPoint, without the translation
transformDirection(m, direction) ==
    << m[1] ** direction[1] ++ m[5] ** direction[2] ++ m[9]  ** direction[3],
       m[2] ** direction[1] ++ m[6] ** direction[2] ++ m[10] ** direction[3],
       m[3] ** direction[1] ++ m[7] ** direction[2] ++ m[11] ** direction[3] >>

\* BasicVector3::getLength and getNormalised: the vector divided by its
\* length. The square root is exact for the squares of rationals (the input
\* normals are chosen so), and rounded down in numerator and denominator else.
Isqrt(n) == CHOOSE k \in 0..n : k * k <= n /\ (k + 1) * (k + 1) > n
Sqrt(a) ==
    IF a[2] = 0 THEN (IF a = Inf THEN Inf ELSE NaN)
    ELSE IF a[1] < 0 THEN NaN
    ELSE Frac(Isqrt(a[1]), Isqrt(a[2]))
getLength(v) == Sqrt(v[1] ** v[1] ++ v[2] ** v[2] ++ v[3] ** v[3])
DivLen(x, len) == Div(x, len)
getNormalised(v) ==
    LET len == getLength(v)
    IN  << DivLen(v[1], len), DivLen(v[2], len), DivLen(v[3], len) >>

(* ArbitraryMeshVertex and model::FbxSurface *)

\* ArbitraryMeshVertex(vertex, normal, texcoord, colour)
ArbitraryMeshVertex(vertex, normal, texcoord, colour) ==
    [vertex |-> vertex, normal |-> normal, texcoord |-> texcoord, colour |-> colour]

\* std::equal_to<ArbitraryMeshVertex>: all four attributes equal component-wise
VertexEq(a, b) ==
    /\ a.vertex = b.vertex
    /\ a.normal = b.normal
    /\ a.texcoord = b.texcoord
    /\ a.colour = b.colour

Materials == {"matA", "matB"}

\* The vertices the scene source hands over (position, normal, uv, colour).
VertexPool ==
    { ArbitraryMeshVertex(p, n, <<0, 1>>, <<1, 1, 1>>) :
        p \in {Vector3(1, 2, 3), Vector3(0, 0, 1)},
        n \in {Vector3(0, 1, 0), Vector3(0, 0, 2)} }

\* The vertices of the meshes handed to the exporter.
SurfPool ==
    { ArbitraryMeshVertex(Vector3(1, 2, 3), Vector3(0, 1, 0), <<0, 1>>, <<1, 1, 1>>),
      ArbitraryMeshVertex(Vector3(0, 0, 1), Vector3(0, 0, 2), <<0, 1>>, <<1, 1, 1>>) }

BoundedSeq(S, n) == UNION { [1..k -> S] : k \in 0..n }

\* A default-constructed FbxSurface. vertexIndices is a function from the
\* stored keys to their index.
EmptyFbxSurface ==
    [material |-> "", vertices |-> <<>>, indices |-> <<>>, vertexIndices |-> <<>>]

\* std::unordered_map::try_emplace(key, value): [map, first (the element's
\* key), value (the element's mapped value), second (whether it was inserted)]
try_emplace(map, key, value) ==
    IF \E k \in DOMAIN map : VertexEq(k, key)
    THEN LET k == CHOOSE k \in DOMAIN map : VertexEq(k, key)
         IN  [map |-> map, first |-> k, value |-> map[k], second |-> FALSE]
    ELSE [map |-> [k \in DOMAIN map \cup {key} |-> IF k = key THEN value ELSE map[k]],
          first |-> key, value |-> value, second |-> TRUE]

\* FbxSurface::addVertex, always appending: the vertex list is not shared
addVertexAlwaysAppends(s, vertex) ==
    [s EXCEPT !.vertices = Append(@, vertex),
              !.indices  = Append(@, Len(s.vertices)),
              !.vertexIndices = [k \in DOMAIN @ \cup {vertex} |->
                                    IF k = vertex THEN Len(s.vertices) ELSE @[k]]]

\* FbxSurface::addVertex, putting a new vertex in front of the list
addVertexPrepends(s, vertex) ==
    LET emplaceResult == try_emplace(s.vertexIndices, vertex, Len(s.vertices))
    IN  [s EXCEPT !.vertexIndices = emplaceResult.map,
                  !.vertices = IF emplaceResult.second
                               THEN <<emplaceResult.first>> \o @
                               ELSE @,
                  !.indices = Append(@, emplaceResult.value)]

\* FbxSurface::addVertex
addVertex(s, vertex) ==
    LET emplaceResult == try_emplace(s.vertexIndices, vertex, Len(s.vertices))
    IN  [s EXCEPT !.vertexIndices = emplaceResult.map,
                  !.vertices = IF emplaceResult.second
                               THEN Append(@, emplaceResult.first)
                               ELSE @,
                  !.indices = Append(@, emplaceResult.value)]

\* An FbxSurface of material m built through addVertex alone, one call per
\* element of vs (ExportFbxMesh's loop over the face indices).
RECURSIVE BuildFbxSurface(_, _)
BuildFbxSurface(m, vs) ==
    IF vs = <<>>
    THEN [EmptyFbxSurface EXCEPT !.material = m]
    ELSE addVertex(BuildFbxSurface(m, SubSeq(vs, 1, Len(vs) - 1)), vs[Len(vs)])

(* Operations on the FbxSurface object *)

\* surfacesByMaterial[m].material = material->name
SetMaterial(m) ==
    /\ fbx.indices = <<>>
    /\ fbx' = [fbx EXCEPT !.material = m]
    /\ UNCHANGED <<endianVars, mainVars, surfVars, streamVars, convVars, mathVars>>

AddVertex(v) ==
    /\ Len(fbx.indices) < MaxIndices
    /\ fbx' = addVertex(fbx, v)
    /\ UNCHANGED <<endianVars, mainVars, surfVars, streamVars, convVars, mathVars>>

-----------------------------------------------------------------------------
(* model::ModelExporterBase *)

\* no entry for the material in the std::map _surfaces
NoSurface == [present |-> FALSE, materialName |-> "", vertices |-> <<>>, indices |-> <<>>]

\* Surface(): a value-initialised entry of _surfaces
NewSurface == [present |-> TRUE, materialName |-> "", vertices |-> <<>>, indices |-> <<>>]

\* ensureSurface putting a new Surface under the name whether there is one or not
ensureSurfaceReplaces(surfs, materialName) ==
    [surfs EXCEPT ![materialName] = [NewSurface EXCEPT !.materialName = materialName]]

\* ModelExporterBase::ensureSurface: the map after the call
ensureSurface(surfs, materialName) ==
    IF ~surfs[materialName].present
    THEN [surfs EXCEPT ![materialName] = [NewSurface EXCEPT !.materialName = materialName]]
    ELSE surfs

\* addSurface's vertex loop with the normals transformed by localToWorld itself
RECURSIVE TransformedByLocalToWorld(_, _, _)
TransformedByLocalToWorld(vertices, localToWorld, invTranspTransform) ==
    IF vertices = <<>>
    THEN <<>>
    ELSE LET meshVertex == Head(vertices)
         IN  << ArbitraryMeshVertex(
                    transformPoint(localToWorld, meshVertex.vertex),
                    getNormalised(transformPoint(localToWorld, meshVertex.normal)),
                    meshVertex.texcoord,
                    meshVertex.colour) >>
             \o TransformedByLocalToWorld(Tail(vertices), localToWorld, invTranspTransform)

\* The vertices addSurface puts into the surface, in the order of the incoming ones
RECURSIVE TransformedVertices(_, _, _)
TransformedVertices(vertices, localToWorld, invTranspTransform) ==
    IF vertices = <<>>
    THEN <<>>
    ELSE LET meshVertex == Head(vertices)
         IN  << ArbitraryMeshVertex(
                    transformPoint(localToWorld, meshVertex.vertex),
                    getNormalised(transformPoint(invTranspTransform, meshVertex.normal)),
                    meshVertex.texcoord,
                    meshVertex.colour) >>
             \o TransformedVertices(Tail(vertices), localToWorld, invTranspTransform)

\* addSurface's index loop with one-based indices: each index one too high
RECURSIVE OneBasedIndices(_, _, _)
OneBasedIndices(indices, i, indexStart) ==
    IF i < Len(indices) - 2
    THEN << indices[i + 3] + indexStart + 1,
            indices[i + 2] + indexStart + 1,
            indices[i + 1] + indexStart + 1 >>
         \o OneBasedIndices(indices, i + 3, indexStart)
    ELSE <<>>

\* addSurface's index loop without the reversal: (i0, i1, i2) kept as it came
RECURSIVE KeptIndices(_, _, _)
KeptIndices(indices, i, indexStart) ==
    IF i < Len(indices) - 2
    THEN << indices[i + 1] + indexStart,
            indices[i + 2] + indexStart,
            indices[i + 3] + indexStart >>
         \o KeptIndices(indices, i + 3, indexStart)
    ELSE <<>>

\* addSurface's index loop running over every index: an incomplete trailing
\* triple is emitted with the indices it has
RECURSIVE TrailingIndices(_, _, _)
TrailingIndices(indices, i, indexStart) ==
    IF i < Len(indices)
    THEN [k \in 1..(IF Len(indices) - i < 3 THEN Len(indices) - i ELSE 3) |->
             indices[i + (IF Len(indices) - i < 3 THEN Len(indices) - i ELSE 3) + 1 - k]
                 + indexStart]
         \o TrailingIndices(indices, i + 3, indexStart)
    ELSE <<>>

\* addSurface's index loop: for (i = 0; i < indices.size() - 2; i += 3), pushing
\* indices[i + 2], indices[i + 1], indices[i + 0], each plus indexStart
\* (indices[i] of the code is indices[i + 1] here)
RECURSIVE ReversedIndices(_, _, _)
ReversedIndices(indices, i, indexStart) ==
    IF i < Len(indices) - 2
    THEN << indices[i + 3] + indexStart,
            indices[i + 2] + indexStart,
            indices[i + 1] + indexStart >>
         \o ReversedIndices(indices, i + 3, indexStart)
    ELSE <<>>

\* Matrix4::getIdentity() premultiplied by the rotation of 90 degrees about X
YUpTransform ==
    getPremultipliedBy(getIdentity, getRotationForEulerXYZDegrees(<<90, 0, 0>>))

\* the rotation applied when the up axis is not Y
SceneTransformUnlessYUp(up) == IF up THEN getIdentity ELSE YUpTransform

\* The transform ExportFbxMesh hands to addSurface
SceneTransform(up) == IF up THEN YUpTransform ELSE getIdentity

\* ModelExporterBase::addSurface: [surfaces (the map after the call), threw]
addSurface(surfs, incoming, localToWorld) ==
    LET material == incoming.material
        ensured == ensureSurface(surfs, material)
        surface == ensured[material]
        invTranspTransform == getTransposed(getFullInverse(localToWorld))
        indexStart == Len(surface.vertices)
        vertices == incoming.vertices
        indices == incoming.indices
    IN  IF Len(indices) < 3
        THEN [surfaces |-> ensured, threw |-> TRUE]
        ELSE [surfaces |->
                [ensured EXCEPT ![material] =
                    [surface EXCEPT
                        !.vertices = @ \o TransformedVertices(vertices, localToWorld,
                                                              invTranspTransform),
                        !.indices = @ \o ReversedIndices(indices, 0, indexStart)]],
              threw |-> FALSE]

\* struct ModelPolygon { a, b, c }
ModelPolygon(a, b, c) == [a |-> a, b |-> b, c |-> c]

\* the loop body of addPolygons, for the polygons in order
RECURSIVE PushPolygons(_, _)
PushPolygons(surface, polys) ==
    IF polys = <<>>
    THEN surface
    ELSE LET indexStart == Len(surface.vertices)
             transformed == Head(polys)
         IN  PushPolygons(
                 [surface EXCEPT
                     !.vertices = @ \o <<transformed.a, transformed.b, transformed.c>>,
                     !.indices = @ \o <<indexStart, indexStart + 1, indexStart + 2>>],
                 Tail(polys))

\* ModelExporterBase::addPolygons: the map after the call
addPolygons(surfs, materialName, polys) ==
    LET ensured == ensureSurface(surfs, materialName)
    IN  [ensured EXCEPT ![materialName] = PushPolygons(@, polys)]

\* The polygons handed to addPolygons: a triangle, and a degenerate one
PolygonPool ==
    { ModelPolygon(ArbitraryMeshVertex(Vector3(1, 2, 3), Vector3(0, 1, 0), <<0, 1>>, <<1, 1, 1>>),
                   ArbitraryMeshVertex(Vector3(0, 0, 1), Vector3(0, 0, 2), <<0, 1>>, <<1, 1, 1>>),
                   ArbitraryMeshVertex(Vector3(4, 0, 0), Vector3(1, 0, 0), <<0, 1>>, <<1, 1, 1>>)),
      ModelPolygon(ArbitraryMeshVertex(Vector3(0, 0, 1), Vector3(0, 0, 2), <<0, 1>>, <<1, 1, 1>>),
                   ArbitraryMeshVertex(Vector3(1, 2, 3), Vector3(0, 1, 0), <<0, 1>>, <<1, 1, 1>>),
                   ArbitraryMeshVertex(Vector3(1, 2, 3), Vector3(0, 1, 0), <<0, 1>>, <<1, 1, 1>>)) }

\* The vertex lists the incoming FbxSurfaces are built from, and the polygon
\* lists handed to addPolygons
ProperTriangle ==
    << ArbitraryMeshVertex(Vector3(1, 2, 3), Vector3(0, 1, 0), <<0, 1>>, <<1, 1, 1>>),
       ArbitraryMeshVertex(Vector3(0, 0, 1), Vector3(0, 0, 2), <<0, 1>>, <<1, 1, 1>>),
       ArbitraryMeshVertex(Vector3(4, 0, 0), Vector3(1, 0, 0), <<0, 1>>, <<1, 1, 1>>) >>
\* the vertices of a surface with four indices: a triangle and one index more
FourIndices == ProperTriangle \o <<ProperTriangle[1]>>
SurfInputs == BoundedSeq(SurfPool, MaxIndices) \cup {ProperTriangle, FourIndices}
PolyInputs == BoundedSeq(PolygonPool, MaxPolys)

NoCall == [op |-> "none", material |-> "", incoming |-> [vertices |-> <<>>, indices |-> <<>>],
           transform |-> getIdentity, polys |-> <<>>, threw |-> FALSE]

(* Operations on the exporter *)

\* exporter.addSurface(surface, transform), with an FbxSurface built through addVertex
AddSurface(m, vs) ==
    /\ calls < MaxCalls
    /\ \E incoming \in {BuildFbxSurface(m, vs)}, transform \in {SceneTransform(upAxisY)} :
         \E r \in {addSurface(surfaces, incoming, transform)} :
           /\ surfaces' = r.surfaces
           /\ last' = [op |-> "addSurface", material |-> m,
                       incoming |-> [vertices |-> incoming.vertices,
                                     indices |-> incoming.indices],
                       transform |-> transform,
                       polys |-> <<>>, threw |-> r.threw]
    /\ calls' = calls + 1
    /\ UNCHANGED <<endianVars, mainVars, upAxisY, fbxVars, streamVars, convVars, mathVars>>

\* exporter.addPolygons(materialName, polys)
AddPolygons(m, polys) ==
    /\ calls < MaxCalls
    /\ surfaces' = addPolygons(surfaces, m, polys)
    /\ last' = [op |-> "addPolygons", material |-> m, incoming |-> [vertices |-> <<>>, indices |-> <<>>],
                transform |-> getIdentity, polys |-> polys, threw |-> FALSE]
    /\ calls' = calls + 1
    /\ UNCHANGED <<endianVars, mainVars, upAxisY, fbxVars, streamVars, convVars, mathVars>>

\* The transforms a caller of addSurface may pass: a non-uniform scale, the
\* same moved, the Y-up rotation moved, and a scale that flattens X
Scale211 == getScale(Vector3(2, 1, 1))
MovedScale211 == getMultipliedBy(getTranslation(Vector3(3, 4, 5)), Scale211)
MovedYUp == getMultipliedBy(getTranslation(Vector3(1, 2, 3)), YUpTransform)
FlatteningScale == getScale(Vector3(0, 1, 1))
AffineInvertibleTransforms == {Scale211, MovedScale211, MovedYUp}
SingularTransforms == {FlatteningScale}
Transforms == AffineInvertibleTransforms \cup SingularTransforms

\* The vertex lists of the surfaces handed over with these transforms
SlantedTriangle ==
    << ArbitraryMeshVertex(Vector3(1, 2, 3), Vector3(6, 4, 0), <<0, 1>>, <<1, 1, 1>>),
       ArbitraryMeshVertex(Vector3(0, 0, 1), Vector3(0, 0, 2), <<0, 1>>, <<1, 1, 1>>),
       ArbitraryMeshVertex(Vector3(4, 0, 0), Vector3(0, 3, 4), <<0, 1>>, <<1, 1, 1>>) >>
TransformInputs == {ProperTriangle, SlantedTriangle}

\* exporter.addSurface(surface, localToWorld) with a transform of the caller's
AddSurfaceTransformed(m, vs, localToWorld) ==
    /\ calls < MaxCalls
    /\ \E incoming \in {BuildFbxSurface(m, vs)} :
         \E r \in {addSurface(surfaces, incoming, localToWorld)} :
           /\ surfaces' = r.surfaces
           /\ last' = [op |-> "addSurface", material |-> m,
                       incoming |-> [vertices |-> incoming.vertices,
                                     indices |-> incoming.indices],
                       transform |-> localToWorld,
                       polys |-> <<>>, threw |-> r.threw]
    /\ calls' = calls + 1
    /\ UNCHANGED <<endianVars, mainVars, upAxisY, fbxVars, streamVars, convVars, mathVars>>

-----------------------------------------------------------------------------
(* Computations on Matrix4 for their own sake: the operands are drawn in    *)
(* the initial state, an action applies the functions of the code to them. *)

\* x' = x + y: an affine matrix that is neither a rotation nor a scale
ShearXY ==
    byColumns(Q(1), Q(0), Q(0), Q(0),
              Q(1), Q(1), Q(0), Q(0),
              Q(0), Q(0), Q(1), Q(0),
              Q(0), Q(0), Q(0), Q(1))

\* affine matrices with an invertible upper-left 3x3 block: a linear part
\* (determinant 1 or 2) moved by a translation
LinearParts == {getIdentity, YUpTransform, Scale211, ShearXY,
                getMultipliedBy(ShearXY, YUpTransform)}
Translations == {Vector3(0, 0, 0), Vector3(3, 4, 5), Vector3(-1, 0, 2)}
AffineMatrices ==
    { getMultipliedBy(getTranslation(t), r) : t \in Translations, r \in LinearParts }
Points == {Vector3(0, 0, 0), Vector3(1, 2, 3), Vector3(4, 0, -1),
           <<Frac(1, 2), Q(-3), Frac(2, 3)>>}

\* no matrix computed yet
NoMatrix == <<>>

\* op: the computation done; m, b, c, p: its operands; the other fields: its results
IdleMath == [op |-> "none", m |-> getIdentity, b |-> getIdentity, c |-> getIdentity,
             p |-> Vector3(0, 0, 0),
             inverse |-> getIdentity, out |-> Vector3(0, 0, 0),
             left |-> NoMatrix, right |-> NoMatrix, then |-> Vector3(0, 0, 0)]

\* T.getInverse().transformPoint(T.transformPoint(p))
InverseRoundTrip ==
    /\ math.op = "none"
    /\ math' = [math EXCEPT !.op = "roundTrip",
                            !.inverse = getInverse(math.m),
                            !.out = transformPoint(getInverse(math.m),
                                                   transformPoint(math.m, math.p))]
    /\ UNCHANGED <<endianVars, mainVars, fbxVars, surfVars, streamVars, convVars>>

\* matrices that are not affine: Z and W exchanged (determinant -1), and a
\* projective last row (determinant 1)
SwapZW ==
    byColumns(Q(1), Q(0), Q(0), Q(0),
              Q(0), Q(1), Q(0), Q(0),
              Q(0), Q(0), Q(0), Q(1),
              Q(0), Q(0), Q(1), Q(0))
ProjectiveX ==
    byColumns(Q(1), Q(0), Q(0), Q(1),
              Q(0), Q(1), Q(0), Q(0),
              Q(0), Q(0), Q(1), Q(0),
              Q(0), Q(0), Q(0), Q(1))
NonAffineParts == {getIdentity, SwapZW, ProjectiveX}

\* invertible matrices of determinant 1 or -1, affine (last factor the
\* identity) or not
UnimodularMatrices ==
    { getMultipliedBy(getMultipliedBy(getTranslation(t), r), n) :
        t \in Translations, r \in LinearParts \ {Scale211}, n \in NonAffineParts }

\* M.getFullInverse()
FullInverse ==
    /\ math.op = "none"
    /\ math' = [math EXCEPT !.op = "fullInverse", !.inverse = getFullInverse(math.m)]
    /\ UNCHANGED <<endianVars, mainVars, fbxVars, surfVars, streamVars, convVars>>

\* M.getMultipliedBy(M.getFullInverse())
MultiplyByInverse ==
    /\ math.op = "fullInverse"
    /\ math.left = NoMatrix
    /\ math' = [math EXCEPT !.left = getMultipliedBy(math.m, math.inverse)]
    /\ UNCHANGED <<endianVars, mainVars, fbxVars, surfVars, streamVars, convVars>>

\* M.getFullInverse().getMultipliedBy(M)
MultiplyInverseBy ==
    /\ math.op = "fullInverse"
    /\ math.right = NoMatrix
    /\ math' = [math EXCEPT !.right = getMultipliedBy(math.inverse, math.m)]
    /\ UNCHANGED <<endianVars, mainVars, fbxVars, surfVars, streamVars, convVars>>

\* the affine matrices composed with each other
ComposedMatrices ==
    {getIdentity, YUpTransform, MovedScale211, MovedYUp,
     getMultipliedBy(getTranslation(Vector3(-1, 0, 2)), ShearXY)}
ComposedPoints == {Vector3(1, 2, 3), <<Frac(1, 2), Q(-3), Frac(2, 3)>>}

\* A.getMultipliedBy(B).transformPoint(p), A.transformPoint(B.transformPoint(p)),
\* A.getMultipliedBy(B).getMultipliedBy(C) and A.getMultipliedBy(B.getMultipliedBy(C))
Compose ==
    /\ math.op = "none"
    /\ math' = [math EXCEPT
                  !.op = "composed",
                  !.out = transformPoint(getMultipliedBy(math.m, math.b), math.p),
                  !.then = transformPoint(math.m, transformPoint(math.b, math.p)),
                  !.left = getMultipliedBy(getMultipliedBy(math.m, math.b), math.c),
                  !.right = getMultipliedBy(math.m, getMultipliedBy(math.b, math.c))]
    /\ UNCHANGED <<endianVars, mainVars, fbxVars, surfVars, streamVars, convVars>>

-----------------------------------------------------------------------------
(* stream::writeBigEndian and stream::writeLittleEndian. A value of a       *)
(* fixed-width unsigned type is a number below 2^(8 * sizeof); bytes are    *)
(* numbers below 256. The build is the byte order of the host and whether   *)
(* the compiler defines the macro __BIG_ENDIAN__.                           *)

RECURSIVE Pow256(_)
Pow256(n) == IF n = 0 THEN 1 ELSE 256 * Pow256(n - 1)

\* the bytes of value, most significant byte first
MostSignificantFirst(value, sizeof) ==
    [i \in 1..sizeof |-> (value \div Pow256(sizeof - i)) % 256]

\* std::reverse(first, last)
reverse(bytes) == [i \in 1..Len(bytes) |-> bytes[Len(bytes) + 1 - i]]

\* the object representation of value in the memory of the host:
\* reinterpret_cast<char*>(&output)[0 .. sizeof(ValueType) - 1]
ObjectRepresentation(value, sizeof, host) ==
    IF host = "big"
    THEN MostSignificantFirst(value, sizeof)
    ELSE reverse(MostSignificantFirst(value, sizeof))

\* stream::writeBigEndian: what the stream holds after the call
writeBigEndian(stream, value, sizeof, host, BIG_ENDIAN_defined) ==
    LET output == ObjectRepresentation(value, sizeof, host)
    IN  stream \o (IF ~BIG_ENDIAN_defined THEN reverse(output) ELSE output)

\* stream::writeLittleEndian: what the stream holds after the call
writeLittleEndian(stream, value, sizeof, host, BIG_ENDIAN_defined) ==
    LET output == ObjectRepresentation(value, sizeof, host)
    IN  stream \o (IF BIG_ENDIAN_defined THEN reverse(output) ELSE output)

\* the builds, and the values written: uint8_t, uint16_t and uint32_t
Hosts == {"little", "big"}
TypedValues ==
    { [sizeof |-> 1, value |-> v] : v \in {0, 1, 255} }
    \cup { [sizeof |-> 2, value |-> v] : v \in {1, 258, 65280, 65535} }
    \cup { [sizeof |-> 4, value |-> v] : v \in {1, 16909060, 2130706432} }

IdleEndian == [op |-> "none", host |-> "little", BIG_ENDIAN_defined |-> FALSE,
               sizeof |-> 1, value |-> 0, stream |-> <<>>]

\* stream::writeBigEndian(stream, value)
WriteBigEndian ==
    /\ endian.op = "none"
    /\ endian' = [endian EXCEPT
                    !.op = "writeBigEndian",
                    !.stream = writeBigEndian(@, endian.value, endian.sizeof,
                                              endian.host, endian.BIG_ENDIAN_defined)]
    /\ UNCHANGED <<mainVars, fbxVars, surfVars, streamVars, convVars, mathVars>>

\* stream::writeLittleEndian(stream, value)
WriteLittleEndian ==
    /\ endian.op = "none"
    /\ endian' = [endian EXCEPT
                    !.op = "writeLittleEndian",
                    !.stream = writeLittleEndian(@, endian.value, endian.sizeof,
                                                 endian.host, endian.BIG_ENDIAN_defined)]
    /\ UNCHANGED <<mainVars, fbxVars, surfVars, streamVars, convVars, mathVars>>

-----------------------------------------------------------------------------
(* ExportFbxMesh and ConvertFbxToLwo (FbxToLwo.cpp). A scene is a sequence  *)
(* of meshes; a mesh has its material names and its triangulated faces,     *)
(* each face with the index of its material and its three vertices in the   *)
(* order of the source (what ConstructMeshVertex returns for                *)
(* faceIndices[i + 0], [i + 1] and [i + 2]).                                *)

Face(material, f0, f1, f2) == [material |-> material, f |-> <<f0, f1, f2>>]

\* the faces and meshes the scene source hands over (meshes with materials)
FacePool ==
    { Face(1, ProperTriangle[1], ProperTriangle[2], ProperTriangle[3]),
      Face(2, ProperTriangle[3], ProperTriangle[2], ProperTriangle[1]) }
MeshMaterials == <<"matA", "matB">>
Meshes == { [materials |-> MeshMaterials, faces |-> faces] :
              faces \in BoundedSeq(FacePool, MaxFaces) }
Scenes == UNION { [1..k -> Meshes] : k \in 1..MaxMeshes }

\* ExportFbxMesh's loop over the face indices: three addVertex calls per
\* face on the surface of the face's material, last source vertex first
RECURSIVE AddFaces(_, _)
AddFaces(surfacesByMaterial, faces) ==
    IF faces = <<>>
    THEN surfacesByMaterial
    ELSE LET face == Head(faces)
             materialIndex == face.material
             indexA == face.f[3]
             indexB == face.f[2]
             indexC == face.f[1]
         IN  AddFaces(
                 [surfacesByMaterial EXCEPT ![materialIndex] =
                     addVertex(addVertex(addVertex(@, indexA), indexB), indexC)],
                 Tail(faces))

\* surfacesByMaterial of one mesh: one FbxSurface per material, named after it
SurfacesByMaterial(mesh) ==
    AddFaces([m \in 1..Len(mesh.materials) |->
                 [EmptyFbxSurface EXCEPT !.material = mesh.materials[m]]],
             mesh.faces)

\* for (const auto& surface : surfacesByMaterial) exporter.addSurface(surface,
\* transform): an exception of addSurface ends the loop and leaves it.
\* exporter is [surfaces (the map _surfaces), threw (an exception is on its way)]
RECURSIVE AddSurfaces(_, _, _)
AddSurfaces(exporter, surfacesByMaterial, transform) ==
    IF surfacesByMaterial = <<>> \/ exporter.threw
    THEN exporter
    ELSE AddSurfaces(addSurface(exporter.surfaces, Head(surfacesByMaterial), transform),
                     Tail(surfacesByMaterial), transform)

\* ExportFbxMesh: the loop over the meshes of the scene; nothing catches
RECURSIVE ExportFbxMesh(_, _, _)
ExportFbxMesh(exporter, meshes, up) ==
    IF meshes = <<>> \/ exporter.threw
    THEN exporter
    ELSE ExportFbxMesh(AddSurfaces(exporter, SurfacesByMaterial(Head(meshes)),
                                   SceneTransform(up)),
                       Tail(meshes), up)

\* exportToPath has not been called
NotCalled == <<>>

\* pc: where the call ended; createdDirectories: create_directories was
\* reached; exportToPath: the surfaces of the exporter when exportToPath was
\* called; destroyed: the number of scene->destroy() calls
IdleConv == [pc |-> "idle", scene |-> <<>>, createdDirectories |-> FALSE,
             exportToPath |-> NotCalled, destroyed |-> 0]

\* main() has not returned
NoStatus == "none"

\* main() not started. mode: "batch" or "single"; entries: the files of the
\* input folder in iteration order, or the paths of the command line; next:
\* the entry the loop is at; handled: the entries the loop body has run for;
\* converted: the entries whose output was written; reported: the entries an
\* error was printed for; status: the value main returned
IdleMain == [pc |-> "idle", mode |-> "none", entries |-> <<>>, next |-> 1,
             handled |-> <<>>, converted |-> <<>>, reported |-> <<>>,
             status |-> NoStatus]

\* Absent and File are defined with the ExportStream below; a file here is
\* what Lwo2Exporter::exportToPath leaves behind.
LwoData == <<"L", "W", "O", "2">>

\* Lwo2Exporter::exportToPath(outputPath, filename): the files after the
\* call. The model file is written through an ExportStream and takes the
\* place of the target, or the call throws (written = FALSE) before anything
\* has replaced the target.
exportToPath(files, isWritten) ==
    IF isWritten
    THEN [files EXCEPT !.target = [exists |-> TRUE, data |-> LwoData],
                       !.temp = [exists |-> FALSE, data |-> <<>>]]
    ELSE files

\* ConvertFbxToLwo with create_directories in front of ExportFbxMesh
ConvertFbxToLwoCreatesFirst(scene, isWritten) ==
    /\ conv.pc = "idle"
    /\ \E r \in {ExportFbxMesh([surfaces |-> [m \in Materials |-> NoSurface],
                                  threw |-> FALSE], scene, upAxisY)} :
           /\ surfaces' = r.surfaces
           /\ dirExists' = TRUE
           /\ IF r.threw
              THEN /\ conv' = [pc |-> "threw", scene |-> scene,
                               createdDirectories |-> TRUE,
                               exportToPath |-> NotCalled, destroyed |-> 1]
                   /\ fs' = fs
              ELSE /\ conv' = [pc |-> IF isWritten THEN "exported" ELSE "exportFailed",
                               scene |-> scene, createdDirectories |-> TRUE,
                               exportToPath |-> r.surfaces, destroyed |-> 1]
                   /\ fs' = exportToPath(fs, isWritten)
    /\ UNCHANGED <<endianVars, mainVars, last, calls, upAxisY, fbxVars, mathVars,
                   pc, streamOpen, written, attempted, targetBefore, closeError>>

\* ConvertFbxToLwo on a loaded scene: a new exporter, ExportFbxMesh,
\* create_directories, exportToPath, scene->destroy(). An exception of
\* ExportFbxMesh ("threw") or of exportToPath ("exportFailed") is caught, the
\* scene destroyed, and the exception passed on to the caller.
ConvertFbxToLwo(scene, isWritten) ==
    /\ conv.pc = "idle"
    /\ \E r \in {ExportFbxMesh([surfaces |-> [m \in Materials |-> NoSurface],
                                  threw |-> FALSE], scene, upAxisY)} :
           /\ surfaces' = r.surfaces
           /\ IF r.threw
              THEN /\ conv' = [pc |-> "threw", scene |-> scene,
                               createdDirectories |-> FALSE,
                               exportToPath |-> NotCalled, destroyed |-> 1]
                   /\ fs' = fs
                   /\ dirExists' = dirExists
              ELSE /\ conv' = [pc |-> IF isWritten THEN "exported" ELSE "exportFailed",
                               scene |-> scene, createdDirectories |-> TRUE,
                               exportToPath |-> r.surfaces, destroyed |-> 1]
                   /\ fs' = exportToPath(fs, isWritten)
                   /\ dirExists' = TRUE
    /\ UNCHANGED <<endianVars, mainVars, last, calls, upAxisY, fbxVars, mathVars,
                   pc, streamOpen, written, attempted, targetBefore, closeError>>

-----------------------------------------------------------------------------
(* main(): the batch loop and the single-file loop *)

\* number of files in the input folder / of paths on the command line
MaxPaths == 2

\* what a file holds: a scene that converts, bytes ofbx::load cannot read, a
\* scene with a surface the exporter rejects, a scene whose output cannot be
\* written
FileKinds == {"good", "unloadable", "rejected", "unwritable"}

Extensions == {".fbx", ".FBX", ".obj"}

\* string::toLower on the extensions of the model
toLower(extension) == IF extension = ".FBX" THEN ".fbx" ELSE extension

\* How a ConvertFbxToLwo call on a file ends: "converted" (the output is
\* written), "returned" (the load error is printed and the call returns) or
\* "threw" (the exception of ExportFbxMesh or exportToPath is passed on)
ConvertOutcome(file) ==
    CASE file = "good"       -> "converted"
      [] file = "unloadable" -> "returned"
      [] OTHER               -> "threw"

\* main after ConvertFbxToLwo on the entry it is at; an exception leaves the
\* loop body
AfterConvert(m, file) ==
    CASE ConvertOutcome(file) = "converted" ->
             [m EXCEPT !.converted = Append(@, m.next)]
      [] ConvertOutcome(file) = "returned" ->
             [m EXCEPT !.reported = Append(@, m.next)]
      [] OTHER ->
             [m EXCEPT !.pc = "threw"]

\* An exception that leaves main: no handler, the program is terminated
Uncaught(m) ==
    IF m.pc = "threw" THEN [m EXCEPT !.pc = "terminated", !.status = "abort"]
    ELSE [m EXCEPT !.next = @ + 1]

\* The files below the input folder, in the order the iterator yields them
FolderEntries == [extension : Extensions, kind : {"file"}, file : FileKinds]

\* The paths of the command line
PathEntries ==
    [extension : {".fbx"}, kind : {"file"}, file : FileKinds]
    \cup [extension : {".fbx"}, kind : {"missing", "directory"}, file : {"good"}]

\* The body of the batch loop for one directory entry
BatchBody(m, entry) ==
    IF toLower(entry.extension) = ".fbx"
    THEN Uncaught(AfterConvert([m EXCEPT !.handled = Append(@, m.next)], entry.file))
    ELSE [m EXCEPT !.handled = Append(@, m.next), !.next = @ + 1]

\* The body of the single-file loop without its catch block
SingleBodyUncaught(m, entry) ==
    Uncaught(
        IF entry.kind = "missing"
        THEN [m EXCEPT !.handled = Append(@, m.next), !.pc = "threw"]
        ELSE IF entry.kind = "file"
        THEN AfterConvert([m EXCEPT !.handled = Append(@, m.next)], entry.file)
        ELSE [m EXCEPT !.handled = Append(@, m.next)])

\* catch (const std::exception&) of the single-file loop: the failure is
\* printed and the loop goes on
Caught(m) ==
    IF m.pc = "threw"
    THEN [m EXCEPT !.pc = "loop", !.reported = Append(@, m.next), !.next = @ + 1]
    ELSE [m EXCEPT !.next = @ + 1]

\* The body of the single-file loop for one path
SingleBody(m, entry) ==
    Caught(
        IF entry.kind = "missing"
        THEN [m EXCEPT !.handled = Append(@, m.next), !.pc = "threw"]
        ELSE IF entry.kind = "file"
        THEN AfterConvert([m EXCEPT !.handled = Append(@, m.next)], entry.file)
        ELSE [m EXCEPT !.handled = Append(@, m.next)])

\* main without arguments: the usage text, return -1
PrintUsage ==
    /\ main.pc = "idle"
    /\ main' = [main EXCEPT !.pc = "returned", !.status = -1]
    /\ UNCHANGED <<endianVars, fbxVars, surfVars, streamVars, convVars, mathVars>>

\* main -input <folder> -output <folder>: the batch loop is entered
StartBatch(entries) ==
    /\ main.pc = "idle"
    /\ main' = [main EXCEPT !.pc = "loop", !.mode = "batch", !.entries = entries]
    /\ UNCHANGED <<endianVars, fbxVars, surfVars, streamVars, convVars, mathVars>>

\* main <path> ...: the single-file loop is entered
StartSingle(paths) ==
    /\ main.pc = "idle"
    /\ Len(paths) >= 1
    /\ main' = [main EXCEPT !.pc = "loop", !.mode = "single", !.entries = paths]
    /\ UNCHANGED <<endianVars, fbxVars, surfVars, streamVars, convVars, mathVars>>

\* One iteration of the batch loop
BatchStep ==
    /\ main.pc = "loop" /\ main.mode = "batch"
    /\ main.next <= Len(main.entries)
    /\ main' = BatchBody(main, main.entries[main.next])
    /\ UNCHANGED <<endianVars, fbxVars, surfVars, streamVars, convVars, mathVars>>

\* One iteration of the single-file loop
SingleStep ==
    /\ main.pc = "loop" /\ main.mode = "single"
    /\ main.next <= Len(main.entries)
    /\ main' = SingleBody(main, main.entries[main.next])
    /\ UNCHANGED <<endianVars, fbxVars, surfVars, streamVars, convVars, mathVars>>

\* The loop has run out: return 0
Return ==
    /\ main.pc = "loop"
    /\ main.next > Len(main.entries)
    /\ main' = [main EXCEPT !.pc = "returned", !.status = 0]
    /\ UNCHANGED <<endianVars, fbxVars, surfVars, streamVars, convVars, mathVars>>

-----------------------------------------------------------------------------
(* stream::ExportStream, on a file system of three paths:                  *)
(*   target  _outputDirectory / _filename                                  *)
(*   temp    _outputDirectory / ("_" + _filename)      (_tempFile)         *)
(*   bak     _outputDirectory / (_filename + ".bak")                       *)

Absent == [exists |-> FALSE, data |-> <<>>]
File(data) == [exists |-> TRUE, data |-> data]

Bytes == {"x", "y"}
\* what the target path may hold before the export
OldContent == <<"o", "l", "d">>
\* what an abandoned earlier export may have left at the temporary path
StaleContent == <<"s">>

\* A constructor that opens the target file itself for writing
ConstructOpensTarget(opens) ==
    /\ pc = "init"
    /\ dirExists' = TRUE
    /\ targetBefore' = fs.target
    /\ IF opens
       THEN /\ fs' = [fs EXCEPT !.target = File(<<>>)]
            /\ streamOpen' = TRUE
            /\ pc' = "writing"
            /\ closeError' = "none"
       ELSE /\ fs' = fs
            /\ streamOpen' = FALSE
            /\ pc' = "failed"
            /\ closeError' = "open"
    /\ UNCHANGED <<endianVars, mainVars, attempted, written, fbxVars, surfVars, convVars, mathVars>>

\* A constructor that does not create a missing output directory
ConstructKeepsDirectory(opens) ==
    /\ pc = "init"
    /\ dirExists' = dirExists
    /\ targetBefore' = fs.target
    /\ IF opens
       THEN /\ fs' = [fs EXCEPT !.temp = File(<<>>)]
            /\ streamOpen' = TRUE
            /\ pc' = "writing"
            /\ closeError' = "none"
       ELSE /\ fs' = fs
            /\ streamOpen' = FALSE
            /\ pc' = "failed"
            /\ closeError' = "open"
    /\ UNCHANGED <<endianVars, mainVars, attempted, written, fbxVars, surfVars, convVars, mathVars>>

\* ExportStream::ExportStream: create_directories unless the directory exists,
\* then open the temporary file for writing (truncating it); throws when the
\* stream is not open.
Construct(opens) ==
    /\ pc = "init"
    /\ dirExists' = TRUE
    /\ targetBefore' = fs.target
    /\ IF opens
       THEN /\ fs' = [fs EXCEPT !.temp = File(<<>>)]
            /\ streamOpen' = TRUE
            /\ pc' = "writing"
            /\ closeError' = "none"
       ELSE /\ fs' = fs
            /\ streamOpen' = FALSE
            /\ pc' = "failed"
            /\ closeError' = "open"
    /\ UNCHANGED <<endianVars, mainVars, attempted, written, fbxVars, surfVars, convVars, mathVars>>

\* a write that puts its byte into the target file instead of the temporary one
WriteToTarget(b) ==
    /\ pc = "writing"
    /\ attempted = written
    /\ Len(attempted) < MaxWrites
    /\ attempted' = Append(attempted, b)
    /\ written' = Append(written, b)
    /\ fs' = [fs EXCEPT !.target = File(written')]
    /\ UNCHANGED <<endianVars, mainVars, dirExists, pc, streamOpen, targetBefore, closeError, fbxVars, surfVars, convVars, mathVars>>

\* getStream() << b: one byte written to the sink
Write(b) ==
    /\ pc = "writing"
    /\ attempted = written
    /\ Len(attempted) < MaxWrites
    /\ attempted' = Append(attempted, b)
    /\ written' = Append(written, b)
    /\ fs' = [fs EXCEPT !.temp = File(written')]
    /\ UNCHANGED <<endianVars, mainVars, dirExists, pc, streamOpen, targetBefore, closeError, fbxVars, surfVars, convVars, mathVars>>

\* getStream() << b with the sink refusing the byte (disk full, ...) or in a
\* failed state already: the stream's failbit / badbit is set and stays set,
\* the file gets nothing
WriteFails(b) ==
    /\ pc = "writing"
    /\ Len(attempted) < MaxWrites
    /\ attempted' = Append(attempted, b)
    /\ UNCHANGED <<endianVars, mainVars, fs, dirExists, pc, streamOpen, written, targetBefore, closeError, fbxVars, surfVars, convVars, mathVars>>

\* The ExportStream object is destroyed without close() having been called
Discard ==
    /\ pc = "writing"
    /\ pc' = "discarded"
    /\ streamOpen' = FALSE
    /\ UNCHANGED <<endianVars, mainVars, attempted, fs, dirExists, written, targetBefore, closeError, fbxVars, surfVars, convVars, mathVars>>

\* close(), first step: _tempStream.close()
CloseTempStream ==
    /\ pc = "writing"
    /\ streamOpen' = FALSE
    /\ pc' = "close_remove"
    /\ UNCHANGED <<endianVars, mainVars, attempted, fs, dirExists, written, targetBefore, closeError, fbxVars, surfVars, convVars, mathVars>>

\* close(), second step, with a remove that reports success and removes nothing
CloseRemoveSkips(removed) ==
    /\ pc = "close_remove"
    /\ IF fs.target.exists /\ ~removed
       THEN /\ pc' = "failed"
            /\ closeError' = "remove"
       ELSE /\ pc' = "close_rename"
            /\ closeError' = closeError
    /\ UNCHANGED <<endianVars, mainVars, attempted, fs, dirExists, streamOpen, written, targetBefore, fbxVars, surfVars, convVars, mathVars>>

\* close(), second step, with a failed remove that cleans up the temporary file
CloseRemoveDropsTemp(removed) ==
    /\ pc = "close_remove"
    /\ IF fs.target.exists
       THEN IF removed
            THEN /\ fs' = [fs EXCEPT !.target = Absent]
                 /\ pc' = "close_rename"
                 /\ closeError' = closeError
            ELSE /\ fs' = [fs EXCEPT !.temp = Absent]
                 /\ pc' = "failed"
                 /\ closeError' = "remove"
       ELSE /\ fs' = fs
            /\ pc' = "close_rename"
            /\ closeError' = closeError
    /\ UNCHANGED <<endianVars, mainVars, attempted, dirExists, streamOpen, written, targetBefore, fbxVars, surfVars, convVars, mathVars>>

\* close(), second step: if (exists(targetPath)) remove(targetPath), which
\* removes the file or throws (rethrown as runtime_error)
CloseRemove(removed) ==
    /\ pc = "close_remove"
    /\ IF fs.target.exists
       THEN IF removed
            THEN /\ fs' = [fs EXCEPT !.target = Absent]
                 /\ pc' = "close_rename"
                 /\ closeError' = closeError
            ELSE /\ fs' = fs
                 /\ pc' = "failed"
                 /\ closeError' = "remove"
       ELSE /\ fs' = fs
            /\ pc' = "close_rename"
            /\ closeError' = closeError
    /\ UNCHANGED <<endianVars, mainVars, attempted, dirExists, streamOpen, written, targetBefore, fbxVars, surfVars, convVars, mathVars>>

\* close(), last step done as copy-then-delete: the temporary file is left
\* behind on success and lost on failure
CloseRenameByCopy(renamed) ==
    /\ pc = "close_rename"
    /\ IF renamed
       THEN /\ fs' = [fs EXCEPT !.target = fs.temp]
            /\ pc' = "committed"
            /\ closeError' = closeError
       ELSE /\ fs' = [fs EXCEPT !.temp = Absent]
            /\ pc' = "failed"
            /\ closeError' = "rename"
    /\ UNCHANGED <<endianVars, mainVars, attempted, dirExists, streamOpen, written, targetBefore, fbxVars, surfVars, convVars, mathVars>>

\* close(), last step: rename(_tempFile, targetPath), which moves the file
\* or throws (rethrown as runtime_error) leaving both paths as they were
CloseRename(renamed) ==
    /\ pc = "close_rename"
    /\ IF renamed
       THEN /\ fs' = [fs EXCEPT !.target = fs.temp, !.temp = Absent]
            /\ pc' = "committed"
            /\ closeError' = closeError
       ELSE /\ fs' = fs
            /\ pc' = "failed"
            /\ closeError' = "rename"
    /\ UNCHANGED <<endianVars, mainVars, attempted, dirExists, streamOpen, written, targetBefore, fbxVars, surfVars, convVars, mathVars>>

(* close() called again on a stream whose close() has succeeded *)

\* a write to the closed stream: the sink takes nothing
WriteClosed(b) ==
    /\ pc = "committed"
    /\ UNCHANGED vars

\* second close(), first step: _tempStream.close() on the closed stream
CloseAgain ==
    /\ pc = "committed"
    /\ pc' = "reclose_remove"
    /\ UNCHANGED <<endianVars, mainVars, attempted, fs, dirExists, streamOpen, written, targetBefore, closeError, fbxVars, surfVars, convVars, mathVars>>

\* second close(), second step: if (exists(targetPath)) remove(targetPath)
CloseAgainRemove(removed) ==
    /\ pc = "reclose_remove"
    /\ IF fs.target.exists
       THEN IF removed
            THEN /\ fs' = [fs EXCEPT !.target = Absent]
                 /\ pc' = "reclose_rename"
                 /\ closeError' = closeError
            ELSE /\ fs' = fs
                 /\ pc' = "reclose_failed"
                 /\ closeError' = "remove"
       ELSE /\ fs' = fs
            /\ pc' = "reclose_rename"
            /\ closeError' = closeError
    /\ UNCHANGED <<endianVars, mainVars, attempted, dirExists, streamOpen, written, targetBefore, fbxVars, surfVars, convVars, mathVars>>

\* second close(), last step: rename(_tempFile, targetPath); the temporary
\* file was moved away by the first close(), and a rename of a missing file
\* throws
CloseAgainRename ==
    /\ pc = "reclose_rename"
    /\ IF fs.temp.exists
       THEN /\ fs' = [fs EXCEPT !.target = fs.temp, !.temp = Absent]
            /\ pc' = "committed"
            /\ closeError' = closeError
       ELSE /\ fs' = fs
            /\ pc' = "reclose_failed"
            /\ closeError' = "rename"
    /\ UNCHANGED <<endianVars, mainVars, attempted, dirExists, streamOpen, written, targetBefore, fbxVars, surfVars, convVars, mathVars>>

\* The process dies between two steps of the export
Crash ==
    /\ pc \in {"writing", "close_remove", "close_rename"}
    /\ pc' = "crashed"
    /\ streamOpen' = FALSE
    /\ UNCHANGED <<endianVars, mainVars, attempted, fs, dirExists, written, targetBefore, closeError, fbxVars, surfVars, convVars, mathVars>>

-----------------------------------------------------------------------------
(* Initial states and specifications *)

InitFbx == fbx = EmptyFbxSurface

\* A new exporter; the scene's up axis is Y or not
InitSurf ==
    /\ surfaces = [m \in Materials |-> NoSurface]
    /\ last = NoCall
    /\ calls = 0
    /\ upAxisY \in BOOLEAN

\* Before the export: the directory may be missing; in an existing directory
\* the target and a stale temporary file may each be there or not.
InitStream ==
    /\ dirExists \in BOOLEAN
    /\ fs \in [target : {Absent, File(OldContent)},
               temp : {Absent, File(StaleContent)},
               bak : {Absent}]
    /\ (~dirExists => fs.target = Absent /\ fs.temp = Absent)
    /\ pc = "init"
    /\ streamOpen = FALSE
    /\ written = <<>>
    /\ attempted = <<>>
    /\ targetBefore = fs.target
    /\ closeError = "none"

\* The objects a specification does not exercise, in one fixed state
IdleSurf == InitSurf /\ upAxisY = FALSE
IdleStream == InitStream /\ dirExists = FALSE

NextFbx ==
    \/ \E m \in Materials : SetMaterial(m)
    \/ \E v \in VertexPool : AddVertex(v)

NextSurf ==
    \/ \E m \in Materials : \E vs \in SurfInputs : AddSurface(m, vs)
    \/ \E m \in Materials : \E polys \in PolyInputs : AddPolygons(m, polys)

NextStream ==
    \/ \E opens \in BOOLEAN : Construct(opens)
    \/ \E b \in Bytes : Write(b)
    \/ Discard
    \/ CloseTempStream
    \/ \E removed \in BOOLEAN : CloseRemove(removed)
    \/ \E renamed \in BOOLEAN : CloseRename(renamed)
    \/ Crash
    \/ \E b \in Bytes : WriteClosed(b)
    \/ CloseAgain
    \/ \E removed \in BOOLEAN : CloseAgainRemove(removed)
    \/ CloseAgainRename

\* One FbxSurface being filled
InitConv == conv = IdleConv /\ math = IdleMath /\ endian = IdleEndian /\ main = IdleMain
InitSpecFbx == InitFbx /\ IdleSurf /\ IdleStream /\ InitConv
SpecFbx == InitSpecFbx /\ [][NextFbx]_vars

\* One exporter receiving surfaces and polygons
InitSpecSurf == InitFbx /\ InitSurf /\ IdleStream /\ InitConv
SpecSurf == InitSpecSurf /\ [][NextSurf]_vars

\* One exporter receiving surfaces through addSurface alone
NextAddSurface == \E m \in Materials : \E vs \in SurfInputs : AddSurface(m, vs)
SpecAddSurface == InitSpecSurf /\ [][NextAddSurface]_vars

\* One ConvertFbxToLwo call on a loaded scene
NextConvert == \E scene \in Scenes : \E isWritten \in BOOLEAN : ConvertFbxToLwo(scene, isWritten)
SpecConvert == InitSpecSurf /\ [][NextConvert]_vars

\* One exporter receiving surfaces with transforms of the caller's choice
NextTransform ==
    \E m \in Materials : \E vs \in TransformInputs : \E t \in Transforms :
        AddSurfaceTransformed(m, vs, t)
SpecTransform == InitSpecSurf /\ [][NextTransform]_vars

\* One computation on an affine matrix and a point
InitSpecInverse ==
    /\ InitFbx /\ IdleSurf /\ IdleStream
    /\ conv = IdleConv /\ endian = IdleEndian /\ main = IdleMain
    /\ \E m \in AffineMatrices : \E p \in Points :
           math = [IdleMath EXCEPT !.m = m, !.p = p]
NextInverse == InverseRoundTrip
SpecInverse == InitSpecInverse /\ [][NextInverse]_vars

\* One matrix, its full inverse and their two products
InitSpecFullInverse ==
    /\ InitFbx /\ IdleSurf /\ IdleStream
    /\ conv = IdleConv /\ endian = IdleEndian /\ main = IdleMain
    /\ \E m \in UnimodularMatrices : math = [IdleMath EXCEPT !.m = m]
NextFullInverse ==
    \/ FullInverse
    \/ MultiplyByInverse
    \/ MultiplyInverseBy
SpecFullInverse == InitSpecFullInverse /\ [][NextFullInverse]_vars

\* One call of an endian writer in one build
InitSpecEndian ==
    /\ InitFbx /\ IdleSurf /\ IdleStream
    /\ conv = IdleConv /\ math = IdleMath /\ main = IdleMain
    /\ \E host \in Hosts : \E defined \in BOOLEAN : \E t \in TypedValues :
           endian = [IdleEndian EXCEPT !.host = host, !.BIG_ENDIAN_defined = defined,
                                       !.sizeof = t.sizeof, !.value = t.value]
NextEndian ==
    \/ WriteBigEndian
    \/ WriteLittleEndian
SpecEndian == InitSpecEndian /\ [][NextEndian]_vars

\* Three affine matrices and a point, composed
InitSpecCompose ==
    /\ InitFbx /\ IdleSurf /\ IdleStream
    /\ conv = IdleConv /\ endian = IdleEndian /\ main = IdleMain
    /\ \E A \in ComposedMatrices : \E B \in ComposedMatrices :
       \E C \in ComposedMatrices : \E p \in ComposedPoints :
           math = [IdleMath EXCEPT !.m = A, !.b = B, !.c = C, !.p = p]
NextCompose == Compose
SpecCompose == InitSpecCompose /\ [][NextCompose]_vars

\* One ExportStream from construction to commit, failure, discard or crash
InitSpecStream == InitFbx /\ IdleSurf /\ InitStream /\ InitConv
SpecStream == InitSpecStream /\ [][NextStream]_vars

\* One run of main
InitSpecMain == InitFbx /\ IdleSurf /\ IdleStream /\ InitConv
NextMain ==
    \/ PrintUsage
    \/ \E entries \in BoundedSeq(FolderEntries, MaxPaths) : StartBatch(entries)
    \/ \E paths \in BoundedSeq(PathEntries, MaxPaths) : StartSingle(paths)
    \/ BatchStep
    \/ SingleStep
    \/ Return
SpecMain == InitSpecMain /\ [][NextMain]_vars

\* One ConvertFbxToLwo call with an output directory that may exist and hold
\* an output file and a stale temporary file
InitSpecConvertFiles == InitFbx /\ InitSurf /\ InitStream /\ InitConv
SpecConvertFiles == InitSpecConvertFiles /\ [][NextConvert]_vars

\* One ExportStream whose sink may refuse what is written
NextStreamFailing ==
    \/ NextStream
    \/ \E b \in Bytes : WriteFails(b)
SpecStreamFailing == InitSpecStream /\ [][NextStreamFailing]_vars

-----------------------------------------------------------------------------
(* Properties *)

Last(seq) == seq[Len(seq)]

\* the 0-based positions of the vertices of list vs that equal v
PositionsOf(vs, v) == { i \in 0..(Len(vs) - 1) : VertexEq(vs[i + 1], v) }

\* C1: FbxSurface::addVertex(v): if a vertex equal to v is already in the
\* surface, the vertex list stays as it is and the index recorded (appended
\* to indices) is that vertex's index; otherwise v is appended and the index
\* recorded is len(vertices) - 1 after the append.
Thm_C1_AddVertexContract ==
    [][\A v \in VertexPool :
        (Len(fbx.indices) < MaxIndices /\ fbx' = addVertex(fbx, v)) =>
            /\ Len(fbx'.indices) = Len(fbx.indices) + 1
            /\ SubSeq(fbx'.indices, 1, Len(fbx.indices)) = fbx.indices
            /\ IF PositionsOf(fbx.vertices, v) # {}
               THEN /\ fbx'.vertices = fbx.vertices
                    /\ Last(fbx'.indices) \in PositionsOf(fbx.vertices, v)
               ELSE /\ fbx'.vertices = Append(fbx.vertices, v)
                    /\ Last(fbx'.indices) = Len(fbx'.vertices) - 1]_vars

\* C1 witness: a surface into which a vertex was inserted again, after two
\* different vertices had been appended
Wit_C1_VertexShared ==
    /\ Len(fbx.vertices) = 2
    /\ Len(fbx.indices) = 3

\* every index of every Surface of the exporter is a position of its vertex list
IndicesInRange(surface) ==
    \A i \in 1..Len(surface.indices) :
        surface.indices[i] >= 0 /\ surface.indices[i] < Len(surface.vertices)

\* C2: after any sequence of addSurface and addPolygons calls, successful or
\* rejected, every entry of a Surface's indices is less than the length of
\* that Surface's vertices.
Thm_C2_IndexValidity ==
    \A m \in Materials : IndicesInRange(surfaces[m])

\* C2 witness: a Surface that took polygons first and a surface with shared
\* vertices second, so that its later indices are offset ones
Wit_C2_SecondCallOffset ==
    /\ calls = 2
    /\ last.op = "addSurface"
    /\ ~last.threw
    /\ Len(surfaces[last.material].indices) = 6
    /\ Len(surfaces[last.material].vertices) = 5

\* C3, as claimed: no Surface of the exporter holds two equal vertices,
\* whatever addSurface calls were made.
C3_NoEqualVerticesInSurface ==
    \A m \in Materials :
        \A i, j \in 1..Len(surfaces[m].vertices) :
            i # j => ~VertexEq(surfaces[m].vertices[i], surfaces[m].vertices[j])

\* the Surface of material m before it exists is the empty one
VertexCount(surfs, m) == Len(surfs[m].vertices)

\* C4: a successful addSurface appends, for each consecutive incoming index
\* triple (i0, i1, i2), the triple (i2 + s, i1 + s, i0 + s), s being the
\* Surface's vertex count before the call; the incoming vertices are appended
\* in their own order (transformed), not reordered.
Thm_C4_WindingReversed ==
    [][(calls' = calls + 1 /\ last'.op = "addSurface" /\ ~last'.threw) =>
        LET m == last'.material
            inc == last'.incoming
            s == VertexCount(surfaces, m)
            base == Len(surfaces[m].indices)
            n == Len(inc.indices) \div 3
        IN  /\ Len(surfaces'[m].indices) = base + 3 * n
            /\ SubSeq(surfaces'[m].indices, 1, base) = surfaces[m].indices
            /\ \A t \in 0..(n - 1) :
                /\ surfaces'[m].indices[base + 3 * t + 1] = inc.indices[3 * t + 3] + s
                /\ surfaces'[m].indices[base + 3 * t + 2] = inc.indices[3 * t + 2] + s
                /\ surfaces'[m].indices[base + 3 * t + 3] = inc.indices[3 * t + 1] + s
            /\ Len(surfaces'[m].vertices) = s + Len(inc.vertices)
            /\ \A k \in 1..Len(inc.vertices) :
                /\ surfaces'[m].vertices[s + k].vertex
                     = transformPoint(SceneTransform(upAxisY), inc.vertices[k].vertex)
                /\ surfaces'[m].vertices[s + k].texcoord = inc.vertices[k].texcoord
                /\ surfaces'[m].vertices[s + k].colour = inc.vertices[k].colour]_vars

\* C4 witness: the triangle (0, 1, 2) was added to an empty exporter and came
\* out as (2, 1, 0), then a second surface was added to the same material
\* with its indices offset by 3
Wit_C4_TriangleReversed ==
    /\ calls = 2
    /\ last.op = "addSurface"
    /\ ~last.threw
    /\ last.incoming.indices = <<0, 0, 1>>
    /\ surfaces[last.material].indices = <<2, 1, 0, 4, 3, 3>>

\* C5, as claimed: at every moment the target path holds either its complete
\* prior content or the complete newly written content.
C5_PriorOrNewContent ==
    \/ fs.target = targetBefore
    \/ fs.target = File(written)

\* C5, amended: the target path holds its complete prior content, or (once
\* close() has renamed the temporary file) the complete written content, or
\* nothing at all: from the remove step of close() until the rename succeeds,
\* so also after a failed rename or a crash in between, and after the remove
\* step of a close() repeated on a committed stream. It never holds a part
\* of the written content.
Thm_C5_PriorNewOrAbsent ==
    \/ fs.target = targetBefore
    \/ /\ pc \in {"committed", "reclose_remove", "reclose_failed"}
       /\ fs.target = File(written)
    \/ /\ pc \in {"close_rename", "failed", "crashed", "reclose_rename", "reclose_failed"}
       /\ ~streamOpen
       /\ fs.target = Absent

\* C5 witness: the process died after close() removed the old target and
\* before it renamed the temporary file
Wit_C5_CrashAfterRemove ==
    /\ pc = "crashed"
    /\ targetBefore = File(OldContent)
    /\ fs.target = Absent
    /\ fs.temp = File(written)
    /\ written # <<>>

\* C6: constructing the stream and writing to the sink leave every path but
\* the temporary one as it was, and a stream discarded without close()
\* leaves the temporary file on disk and the target as it was before the
\* stream was constructed.
Thm_C6_OnlyCloseTouchesTarget ==
    [][/\ (pc \in {"init", "writing"} /\ pc' \in {"writing", "failed", "discarded"}) =>
            /\ fs'.target = fs.target
            /\ fs'.bak = fs.bak
       /\ (pc' = "discarded") =>
            /\ fs'.temp = File(written')
            /\ fs'.target = targetBefore']_vars

\* C6 witness: a stream discarded after writing, beside an existing target
Wit_C6_DiscardedAfterWrites ==
    /\ pc = "discarded"
    /\ written # <<>>
    /\ fs.temp = File(written)
    /\ fs.target = File(OldContent)

\* C7: close() closes the temporary stream first, removes an existing target
\* second and renames the temporary file last; when it returns without
\* error the target holds exactly the written bytes and the temporary file
\* is gone.
Thm_C7_CloseOrderAndResult ==
    /\ (pc = "close_remove" => ~streamOpen /\ fs.temp = File(written)
                                /\ fs.target = targetBefore)
    /\ (pc = "close_rename" => ~streamOpen /\ fs.temp = File(written)
                                /\ fs.target = Absent)
    /\ (pc = "committed" => ~streamOpen /\ fs.temp = Absent
                             /\ fs.target = File(written)
                             /\ closeError = "none")

\* C7 witness: close() has replaced an existing target by the written bytes
Wit_C7_Committed ==
    /\ pc = "committed"
    /\ targetBefore = File(OldContent)
    /\ Len(written) >= 2
    /\ fs.target = File(written)

\* C8: when the rename step of close() fails, close() throws, the temporary
\* file is still at its path with all that was written, and the target path
\* is absent.
Thm_C8_RenameFailure ==
    (pc = "failed" /\ closeError = "rename") =>
        /\ fs.temp = File(written)
        /\ fs.target = Absent

\* C8 witness: the rename failed after an existing target had been removed
Wit_C8_RenameFailed ==
    /\ pc = "failed"
    /\ closeError = "rename"
    /\ targetBefore = File(OldContent)
    /\ written # <<>>

\* C9, as claimed: after close() has replaced an existing target, the
\* target's previous content is on disk as the .bak file.
C9_OldTargetKeptAsBak ==
    (pc = "committed" /\ targetBefore.exists) => fs.bak = targetBefore

\* C10, as claimed: an addSurface call with fewer than 3 incoming indices
\* throws and leaves the exporter's Surfaces exactly as they were (no entry
\* created, none changed).
C10_RejectedCallChangesNothing ==
    [][(calls' = calls + 1 /\ last'.op = "addSurface"
            /\ Len(last'.incoming.indices) < 3) =>
        /\ last'.threw
        /\ surfaces' = surfaces]_vars


\* number of faces of the scene's meshes that use the material called m
RECURSIVE FaceCount(_, _)
FaceCount(scene, m) ==
    IF scene = <<>>
    THEN 0
    ELSE LET mesh == Head(scene)
         IN  Cardinality({ i \in DOMAIN mesh.faces :
                             mesh.materials[mesh.faces[i].material] = m })
             + FaceCount(Tail(scene), m)

\* C11, as claimed: a surface rejected for having fewer than 3 indices is
\* skipped; after ConvertFbxToLwo the file is exported and every material
\* holds one triangle per face that uses it, in all meshes of the scene.
C11_RejectedSurfaceIsSkipped ==
    conv.pc \notin {"idle", "exportFailed"} =>
        /\ conv.pc = "exported"
        /\ \A m \in Materials : Len(surfaces[m].indices) = 3 * FaceCount(conv.scene, m)

\* C12, as claimed: addPolygons appends a polygon's vertex only when the
\* Surface holds no equal vertex yet: every vertex an addPolygons call has
\* appended differs from every other vertex of the Surface after the call.
C12_AddPolygonsDeduplicates ==
    [][last'.op = "addPolygons" =>
        LET before == surfaces[last'.material].vertices
            after == surfaces'[last'.material].vertices
        IN  \A i \in (Len(before) + 1)..Len(after) :
                \A j \in 1..Len(after) :
                    i # j => ~VertexEq(after[i], after[j])]_vars

\* the vertex list of FbxSurface s holds no two equal vertices, vertexIndices
\* maps exactly the stored vertices, each to its own position, and every
\* index recorded is a position of the list
FbxSurfaceConsistent(s) ==
    /\ \A i, j \in 1..Len(s.vertices) :
           i # j => ~VertexEq(s.vertices[i], s.vertices[j])
    /\ DOMAIN s.vertexIndices = { s.vertices[i] : i \in 1..Len(s.vertices) }
    /\ \A i \in 1..Len(s.vertices) : s.vertexIndices[s.vertices[i]] = i - 1
    /\ \A k \in 1..Len(s.indices) :
           s.indices[k] >= 0 /\ s.indices[k] < Len(s.vertices)

\* C13: after every addVertex(v) of a sequence of addVertex calls on one
\* FbxSurface, the vertex list holds no two equal vertices and vertexIndices
\* maps every stored vertex to its own position; the positions the list had
\* before the call are unchanged; the index recorded for v is the index
\* recorded by exactly those earlier calls that inserted a vertex equal to
\* v; and if all calls so far inserted the same value, the list has length 1.
Thm_C13_DedupInvariant ==
    [][\A v \in VertexPool :
        (Len(fbx.indices) < MaxIndices /\ fbx' = addVertex(fbx, v)) =>
            /\ FbxSurfaceConsistent(fbx')
            /\ SubSeq(fbx'.vertices, 1, Len(fbx.vertices)) = fbx.vertices
            /\ \A k \in 1..Len(fbx'.indices) :
                   VertexEq(fbx'.vertices[fbx'.indices[k] + 1], v)
                       <=> fbx'.indices[k] = Last(fbx'.indices)
            /\ (\A k \in 1..Len(fbx'.indices) :
                    VertexEq(fbx'.vertices[fbx'.indices[k] + 1], v))
                   => Len(fbx'.vertices) = 1]_vars

\* C13 witness: one value inserted three times into an empty surface
Wit_C13_OneValueThreeTimes ==
    /\ fbx.indices = <<0, 0, 0>>
    /\ Len(fbx.vertices) = 1
    /\ FbxSurfaceConsistent(fbx)

\* C14: after any sequence of addSurface and addPolygons calls, every Surface
\* of the exporter has an index list whose length is a multiple of 3, also
\* after an incoming index list whose length is not a multiple of 3.
Thm_C14_IndexCountMultipleOfThree ==
    \A m \in Materials : Len(surfaces[m].indices) % 3 = 0

\* C14 witness: a second call, addSurface with four incoming indices, was
\* accepted and has added one triangle to the three indices held before
Wit_C14_FourIncomingIndices ==
    /\ calls = 2
    /\ last.op = "addSurface"
    /\ ~last.threw
    /\ Len(last.incoming.indices) = 4
    /\ Len(surfaces[last.material].indices) = 6

\* C15, as claimed: once close() has succeeded, whatever is done with the
\* stream object afterwards (a write, another close()), the target file is
\* there and holds the committed content.
C15_CommittedIsTerminal ==
    pc \in {"committed", "reclose_remove", "reclose_rename", "reclose_failed"}
        => fs.target = File(written)

\* C16: the constructor leaves the output directory existing (creating it
\* when it was missing) and the temporary file opened, empty, for writing;
\* when the file cannot be opened it fails with an error. In both cases the
\* target path is as it was.
Thm_C16_ConstructorContract ==
    [][(pc = "init" /\ pc' # "init") =>
        /\ dirExists'
        /\ fs'.target = fs.target
        /\ \/ /\ pc' = "writing"
              /\ streamOpen'
              /\ fs'.temp = File(<<>>)
              /\ closeError' = "none"
           \/ /\ pc' = "failed"
              /\ closeError' = "open"
              /\ ~streamOpen'
              /\ fs' = fs]_vars

\* C16 witness: construction has failed next to an existing target file
Wit_C16_OpenFailed ==
    /\ pc = "failed"
    /\ closeError = "open"
    /\ dirExists
    /\ fs.target = File(OldContent)

\* C17: when the removal of the existing target fails in close(), close()
\* fails with an error, the target keeps its previous content, the
\* temporary file stays where it is with everything written, and nothing is
\* done afterwards (no rename).
Thm_C17_RemoveFailure ==
    [][/\ (pc = "close_remove" /\ pc' = "failed") =>
            /\ closeError' = "remove"
            /\ fs.target.exists
            /\ fs'.target = targetBefore
            /\ fs'.temp = File(written)
       /\ (pc = "failed" => (pc' = "failed" /\ fs' = fs))]_vars

\* C17 witness: close() has failed on the removal, after writes
Wit_C17_RemoveFailed ==
    /\ pc = "failed"
    /\ closeError = "remove"
    /\ Len(written) > 0
    /\ fs.target = File(OldContent)
    /\ fs.temp = File(written)

\* C18, as claimed: addSurface with a non-invertible transform fails with an
\* error, and no Surface holds a vertex whose normal was computed from the
\* singular matrix (every stored normal is a vector of finite numbers).
C18_SingularTransformRejected ==
    (last.op = "addSurface" /\ last.transform \in SingularTransforms) =>
        /\ last.threw
        /\ \A m \in Materials :
               \A i \in 1..Len(surfaces[m].vertices) :
                   \A c \in 1..3 : IsFinite(surfaces[m].vertices[i].normal[c])

\* the matrix m with its translation set to zero
WithoutTranslation(m) == [m EXCEPT ![13] = Q(0), ![14] = Q(0), ![15] = Q(0)]

\* C19: for an affine invertible transform T, the normal addSurface stores
\* for an incoming normal n is N applied to n as a direction, N being
\* transpose(inverse(T)), divided by its length; it is the normal stored for
\* T with its translation set to zero; and under T = scale(2,1,1) the normal
\* (1,0,0) is stored as (1,0,0).
Thm_C19_NormalsByInverseTranspose ==
    (last.op = "addSurface" /\ ~last.threw
        /\ last.transform \in AffineInvertibleTransforms) =>
        LET T == last.transform
            T0 == WithoutTranslation(T)
            N == getTransposed(getFullInverse(T))
            inc == last.incoming.vertices
            stored == surfaces[last.material].vertices
            s == Len(stored) - Len(inc)
        IN  \A k \in 1..Len(inc) :
                /\ stored[s + k].normal
                     = getNormalised(transformDirection(N, inc[k].normal))
                /\ stored[s + k].normal
                     = TransformedVertices(<<inc[k]>>, T0,
                           getTransposed(getFullInverse(T0)))[1].normal
                /\ (T = getScale(Vector3(2, 1, 1)) /\ inc[k].normal = Vector3(1, 0, 0))
                       => stored[s + k].normal = Vector3(1, 0, 0)

\* C19 witness: under the moved scale(2,1,1) the normal (6,4,0) was stored as
\* (3/5, 4/5, 0) and the normal (1,0,0) as (1,0,0)
Wit_C19_ScaledNormals ==
    /\ last.op = "addSurface"
    /\ ~last.threw
    /\ last.transform = MovedScale211
    /\ \E i \in 1..Len(surfaces[last.material].vertices) :
           surfaces[last.material].vertices[i].normal = <<Frac(3, 5), Frac(4, 5), Q(0)>>
    /\ \E i \in 1..Len(surfaces[last.material].vertices) :
           surfaces[last.material].vertices[i].normal = Vector3(1, 0, 0)

\* C20: for an affine matrix T with an invertible upper-left 3x3 block and
\* a point p, T.getInverse().transformPoint(T.transformPoint(p)) is p; the
\* inverse is affine and its translation is -(R^-1 * t), R^-1 being the
\* inverse's 3x3 block and t the translation of T.
Thm_C20_AffineInverseRoundTrip ==
    math.op = "roundTrip" =>
        LET t == <<math.m[13], math.m[14], math.m[15]>>
            rt == transformDirection(math.inverse, t)
        IN  /\ math.out = math.p
            /\ <<math.inverse[13], math.inverse[14], math.inverse[15]>>
                 = <<Neg(rt[1]), Neg(rt[2]), Neg(rt[3])>>
            /\ <<math.inverse[4], math.inverse[8], math.inverse[12], math.inverse[16]>>
                 = <<Q(0), Q(0), Q(0), Q(1)>>

\* C20 witness: the round trip was made through the moved scale(2,1,1),
\* whose inverse has fractions, from a point with fractions
Wit_C20_RoundTripThroughScale ==
    /\ math.op = "roundTrip"
    /\ math.m = MovedScale211
    /\ math.inverse[1] = Frac(1, 2)
    /\ math.p = <<Frac(1, 2), Q(-3), Frac(2, 3)>>
    /\ math.out = math.p


\* C21: for every invertible matrix M, affine or not, M.getMultipliedBy(
\* M.getFullInverse()) and M.getFullInverse().getMultipliedBy(M) are the
\* identity matrix.
Thm_C21_FullInverseProducts ==
    math.op = "fullInverse" =>
        /\ math.left # NoMatrix => math.left = getIdentity
        /\ math.right # NoMatrix => math.right = getIdentity

\* a matrix with a projective last row, moved, inverted and multiplied both ways
Wit_C21_NonAffineInverted ==
    /\ math.op = "fullInverse"
    /\ math.m = getMultipliedBy(getMultipliedBy(getTranslation(Vector3(3, 4, 5)), ShearXY),
                                ProjectiveX)
    /\ math.m[4] # Q(0)
    /\ math.inverse # math.m
    /\ math.left = getIdentity
    /\ math.right = getIdentity

C23_ByteOrderIndependentOfBuild ==
    /\ endian.op = "writeBigEndian" =>
           endian.stream = MostSignificantFirst(endian.value, endian.sizeof)
    /\ endian.op = "writeLittleEndian" =>
           endian.stream = reverse(MostSignificantFirst(endian.value, endian.sizeof))

\* the faces of the scene's meshes that use the material called m, in the
\* order of the meshes and of their faces
RECURSIVE FacesOf(_, _)
FacesOf(scene, m) ==
    IF scene = <<>>
    THEN <<>>
    ELSE LET mesh == Head(scene)
             UsesMaterial(face) == mesh.materials[face.material] = m
         IN  SelectSeq(mesh.faces, UsesMaterial) \o FacesOf(Tail(scene), m)

\* the positions of the three vertices the t-th triangle of a Surface refers to
TrianglePositions(surface, t) ==
    [k \in 1..3 |-> surface.vertices[surface.indices[3 * (t - 1) + k] + 1].vertex]

\* C25, as claimed: end to end, every source face (f0, f1, f2) appears in the
\* exporter's Surface as a triangle whose indices refer to the source
\* vertices in reversed order (f2, f1, f0).
C25_SourceWindingReversed ==
    conv.pc = "exported" =>
        \A m \in Materials :
            LET faces == FacesOf(conv.scene, m)
                T == SceneTransform(upAxisY)
            IN  /\ Len(surfaces[m].indices) = 3 * Len(faces)
                /\ \A t \in 1..Len(faces) :
                       TrianglePositions(surfaces[m], t)
                         = << transformPoint(T, faces[t].f[3].vertex),
                              transformPoint(T, faces[t].f[2].vertex),
                              transformPoint(T, faces[t].f[1].vertex) >>

\* what the code does instead: the two reversals (ExportFbxMesh's and
\* addSurface's) cancel, every triangle refers to (f0, f1, f2)
C25_SourceWindingKept ==
    conv.pc = "exported" =>
        \A m \in Materials :
            LET faces == FacesOf(conv.scene, m)
                T == SceneTransform(upAxisY)
            IN  /\ Len(surfaces[m].indices) = 3 * Len(faces)
                /\ \A t \in 1..Len(faces) :
                       TrianglePositions(surfaces[m], t)
                         = << transformPoint(T, faces[t].f[1].vertex),
                              transformPoint(T, faces[t].f[2].vertex),
                              transformPoint(T, faces[t].f[3].vertex) >>

\* C26: a successful addSurface call for material m keeps what m's Surface
\* held as a prefix of its vertices and of its indices, leaves the Surfaces
\* of the other materials as they were, and every index it adds refers to a
\* vertex added by the same call.
Thm_C26_AddSurfaceAppendsOnly ==
    [][(calls' = calls + 1 /\ last'.op = "addSurface" /\ ~last'.threw) =>
        LET m == last'.material
            before == surfaces[m]
            after == surfaces'[m]
            added == Len(last'.incoming.vertices)
        IN  /\ after.present /\ after.materialName = m
            /\ Len(after.vertices) = Len(before.vertices) + added
            /\ SubSeq(after.vertices, 1, Len(before.vertices)) = before.vertices
            /\ Len(after.indices) >= Len(before.indices) + 3
            /\ SubSeq(after.indices, 1, Len(before.indices)) = before.indices
            /\ \A other \in Materials \ {m} : surfaces'[other] = surfaces[other]
            /\ \A i \in (Len(before.indices) + 1)..Len(after.indices) :
                   /\ after.indices[i] >= Len(before.vertices)
                   /\ after.indices[i] < Len(before.vertices) + added]_vars

\* a triangle added through addSurface to a material that held a polygon
\* already: the polygon's three vertices and indices are still there, and the
\* new triangle refers to the vertices after them
Wit_C26_SecondSurfaceOfMaterial ==
    /\ calls = 2
    /\ last.op = "addSurface" /\ ~last.threw /\ last.material = "matA"
    /\ Len(last.incoming.vertices) = 3
    /\ Len(surfaces["matA"].vertices) = 6
    /\ surfaces["matA"].indices = <<0, 1, 2, 5, 4, 3>>
    /\ ~surfaces["matB"].present

\* the position (x, -z, y) for the position (x, y, z)
YUpPosition(v) == <<v[1], Neg(v[3]), v[2]>>

C29_FailedWriteNotCommitted ==
    attempted # written =>
        /\ pc # "committed"
        /\ fs.target.exists => fs.target = targetBefore

\* C27: exportToPath is called only after ExportFbxMesh has added the
\* surfaces of all meshes; if ExportFbxMesh fails, the output directory is not
\* created and exportToPath not called, no file is written and an existing
\* output file keeps its content; the scene is destroyed exactly once on the
\* success and on the failure path.
Thm_C27_ExportAfterAllSurfaces ==
    [][conv'.pc # "idle" =>
        /\ conv'.destroyed = 1
        /\ conv'.pc = "threw" =>
               /\ ~conv'.createdDirectories
               /\ conv'.exportToPath = NotCalled
               /\ dirExists' = dirExists
               /\ fs' = fs
        /\ conv'.pc # "threw" =>
               /\ conv'.createdDirectories
               /\ conv'.exportToPath = surfaces'
               /\ \A m \in Materials :
                      Len(conv'.exportToPath[m].indices) = 3 * FaceCount(conv'.scene, m)]_vars

\* ExportFbxMesh failed on the second mesh of a scene while an output file
\* was there: the file is as it was, the scene destroyed once
Wit_C27_FailedBeforeExport ==
    /\ conv.pc = "threw"
    /\ Len(conv.scene) = 2
    /\ surfaces["matA"].present /\ Len(surfaces["matA"].indices) = 3
    /\ fs.target = File(OldContent)
    /\ conv.exportToPath = NotCalled
    /\ conv.destroyed = 1

\* the entry numbers in a sequence of entry numbers
Range(seq) == {seq[k] : k \in 1..Len(seq)}

\* C24 (as claimed): in batch mode every file with extension .fbx in any
\* case is converted, whether or not the conversion of another file of the
\* folder fails.
C24_BatchConvertsEveryFbx ==
    (main.mode = "batch" /\ main.pc \in {"returned", "terminated"}) =>
        \A k \in 1..Len(main.entries) :
            (toLower(main.entries[k].extension) = ".fbx" /\ main.entries[k].file = "good")
                => k \in Range(main.converted)

\* C30: in single-file mode the paths are handled in command-line order, a
\* failure on one path is reported and every later path is still handled,
\* and main returns 0.
Thm_C30_SingleFileLoopGoesOn ==
    main.mode = "single" =>
        /\ main.pc # "terminated"
        /\ main.handled = [k \in 1..Len(main.handled) |-> k]
        /\ main.pc = "returned" =>
               /\ main.status = 0
               /\ Len(main.handled) = Len(main.entries)
               /\ \A k \in 1..Len(main.entries) :
                      /\ (main.entries[k].kind = "missing"
                             \/ (main.entries[k].kind = "file"
                                   /\ main.entries[k].file # "good"))
                            => k \in Range(main.reported)
                      /\ (main.entries[k].kind = "file" /\ main.entries[k].file = "good")
                            => k \in Range(main.converted)

\* a rejected file followed by a good one: the first is reported, the second
\* converted, main returned 0
Wit_C30_ConvertedAfterFailure ==
    /\ main.mode = "single" /\ main.pc = "returned" /\ main.status = 0
    /\ Len(main.entries) = 2
    /\ main.entries[1].kind = "file" /\ main.entries[1].file = "rejected"
    /\ main.reported = <<1>>
    /\ main.converted = <<2>>

=============================================================================
